---- MODULE Spec2Model ----
(***************************************************************************)
(* A model of the brightsidebudget ledger: the Journal of                  *)
(* src/src/brightsidebudget/journal.py with its chart of accounts          *)
(* (qualified names, full-name and short-name dictionaries), its           *)
(* transactions (Txn / Posting of posting.py) and its balance assertions.  *)
(*                                                                         *)
(* A QName is the list of its segments (QName._qlist); an Account is the   *)
(* record of its qname (tags play no part in any operation modelled        *)
(* here).  A Python dict is a function whose DOMAIN is the key set; a      *)
(* Python list is a sequence.  An operation that raises returns its error  *)
(* message kind in the field err ("" when it returned normally), together  *)
(* with the journal as the raise left it.                                  *)
(***************************************************************************)
EXTENDS Integers, Sequences, FiniteSets, TLC

VARIABLES
    accounts,             \* Journal.accounts: list[Account]
    full_qname_dict,      \* Journal._full_qname_dict: dict[QName, Account]
    short_qname_dict,     \* Journal._short_qname_dict: dict[QName, list[Account]]
    postings,             \* Journal.postings: list[Posting]
    txns_dict,            \* Journal.txns_dict: dict[int, Txn]
    next_txn_id,          \* Journal._next_txn_id
    bassertions,          \* Journal.bassertions: list[BAssertion]
    bassertions_set,      \* Journal._bassertions_set: set[(date, QName)]
    auto_create_parents,  \* Journal.auto_create_parents
    enforce_1_n,          \* Journal.enforce_1_n
    targets,              \* Journal.targets: list[RPosting]
    last,                 \* the last call made on the journal and how it ended
    txn_arg,              \* the arguments of the call under way: a Txn(...)
                          \* construction, an add_txns, a subset_sum
    txn_ret               \* what that call returned or raised, or the point
                          \* its loop has reached

vars == <<accounts, full_qname_dict, short_qname_dict, postings, txns_dict,
          next_txn_id, bassertions, bassertions_set, auto_create_parents,
          enforce_1_n, targets, last, txn_arg, txn_ret>>

(***************************************************************************)
(* Bounds of the model.                                                    *)
(***************************************************************************)
\* longest batch handed to add_accounts in the chart specification
MaxBatch == 2
\* largest min_length handed to short_qname
MaxMinLength == 3
\* longest posting list handed to Txn(...) in the Txn specification
MaxTxnPostings == 3
\* the journal specifications stop adding transactions at this many
MaxTxns == 2
\* the journal specifications stop adding balance assertions at this many
MaxBAssertions == 2
\* the subset specification stops adding postings on the searched account at
\* this many
MaxSubsetPostings == 4
\* longest list of bank postings handed to get_new_txns
MaxCandidates == 2

(***************************************************************************)
(* QName                                                                   *)
(***************************************************************************)
None == <<>>

NoError == ""

\* QName.parent: None for a one-segment name, else the name minus its last segment
Parent(q) == IF Len(q) = 1 THEN None ELSE SubSeq(q, 1, Len(q) - 1)

\* QName.is_descendant_of: strictly deeper and prefixed by parent
is_descendant_of(q, parent) ==
    IF Len(q) <= Len(parent) THEN FALSE
    ELSE SubSeq(q, 1, Len(parent)) = parent

\* q.is_equal_or_descendant_of(other), which journal.py calls at lines 276,
\* 409 and 505.  Class QName defines is_descendant_of and is_parent_of and
\* no is_equal_or_descendant_of, so the attribute lookup raises
\* AttributeError before anything is compared
is_equal_or_descendant_of(q, other) ==
    [err |-> "AttributeError", value |-> FALSE]

\* QName(qlist[-i:]): the last i segments
Suffix(q, i) == SubSeq(q, Len(q) - i + 1, Len(q))

\* Account(qname=q)
Account(q) == [qname |-> q]

(***************************************************************************)
(* Python containers                                                       *)
(***************************************************************************)
\* d[k] = v
DictSet(d, k, v) == [x \in (DOMAIN d) \cup {k} |-> IF x = k THEN v ELSE d[x]]

EmptyDict == [x \in {} |-> None]

(***************************************************************************)
(* The journal as one value: the operations below take a journal record    *)
(* and return the journal record the call leaves behind.                   *)
(***************************************************************************)
J == [accounts |-> accounts,
      full_qname_dict |-> full_qname_dict,
      short_qname_dict |-> short_qname_dict,
      postings |-> postings,
      txns_dict |-> txns_dict,
      next_txn_id |-> next_txn_id,
      bassertions |-> bassertions,
      bassertions_set |-> bassertions_set,
      auto_create_parents |-> auto_create_parents,
      enforce_1_n |-> enforce_1_n,
      targets |-> targets]

(***************************************************************************)
(* Name resolution                                                         *)
(***************************************************************************)
\* Journal.account with the short-name dictionary consulted first (mutant)
account_short_first(j, qname) ==
    IF qname \in DOMAIN j.short_qname_dict
    THEN IF Len(j.short_qname_dict[qname]) = 1
         THEN [err |-> NoError, acc |-> j.short_qname_dict[qname][1]]
         ELSE [err |-> "ambiguous", acc |-> None]
    ELSE IF qname \in DOMAIN j.full_qname_dict
    THEN [err |-> NoError, acc |-> j.full_qname_dict[qname]]
    ELSE [err |-> "does not exist", acc |-> None]

\* Journal.account: full name first, then a unique short name
account(j, qname) ==
    IF qname \in DOMAIN j.full_qname_dict
    THEN [err |-> NoError, acc |-> j.full_qname_dict[qname]]
    ELSE IF qname \in DOMAIN j.short_qname_dict
    THEN IF Len(j.short_qname_dict[qname]) = 1
         THEN [err |-> NoError, acc |-> j.short_qname_dict[qname][1]]
         ELSE [err |-> "ambiguous", acc |-> None]
    ELSE [err |-> "does not exist", acc |-> None]

\* Journal.is_valid_qname
is_valid_qname(j, qname) ==
    IF qname \in DOMAIN j.full_qname_dict THEN TRUE
    ELSE IF qname \in DOMAIN j.short_qname_dict
    THEN Len(j.short_qname_dict[qname]) = 1
    ELSE FALSE

\* Journal.full_qname: account(qname).qname (raises as account does)
full_qname(j, qname) ==
    LET r == account(j, qname)
    IN IF r.err # NoError THEN [err |-> r.err, qname |-> None]
       ELSE [err |-> NoError, qname |-> r.acc.qname]

\* the test of short_qname's loop body with the full-name check left out (mutant)
short_name_found_no_skip(j, short_name) ==
    Len(j.short_qname_dict[short_name]) = 1

\* the test of short_qname's loop body: a suffix that is a full name is
\* skipped, a suffix of exactly one account is returned
short_name_found(j, short_name) ==
    IF short_name \in DOMAIN j.full_qname_dict THEN FALSE
    ELSE Len(j.short_qname_dict[short_name]) = 1

\* the loop starts at one segment whatever min_length is (mutant)
short_qname_from_one(j, qname, min_length) ==
    IF min_length < 1 THEN [err |-> "min_length", qname |-> None]
    ELSE
    LET r == account(j, qname)
    IN IF r.err # NoError THEN [err |-> r.err, qname |-> None]
       ELSE
       LET qlist == r.acc.qname
           found == {i \in 1..(Len(qlist) - 1) : short_name_found(j, Suffix(qlist, i))}
       IN IF found = {} THEN [err |-> NoError, qname |-> r.acc.qname]
          ELSE [err |-> NoError,
                qname |-> Suffix(qlist, CHOOSE i \in found : \A k \in found : i <= k)]

\* Journal.short_qname
short_qname(j, qname, min_length) ==
    IF min_length < 1 THEN [err |-> "min_length", qname |-> None]
    ELSE
    LET r == account(j, qname)
    IN IF r.err # NoError THEN [err |-> r.err, qname |-> None]
       ELSE
       LET qlist == r.acc.qname
           m == IF min_length < Len(qlist) THEN min_length ELSE Len(qlist)
           found == {i \in m..(Len(qlist) - 1) : short_name_found(j, Suffix(qlist, i))}
       IN IF found = {} THEN [err |-> NoError, qname |-> r.acc.qname]
          ELSE [err |-> NoError,
                qname |-> Suffix(qlist, CHOOSE i \in found : \A k \in found : i <= k)]

\* Journal.is_leaf_account (qname resolves)
is_leaf_account(j, qname) ==
    LET full == full_qname(j, qname).qname
    IN \A i \in 1..Len(j.accounts) : ~is_descendant_of(j.accounts[i].qname, full)

(***************************************************************************)
(* add_accounts                                                            *)
(***************************************************************************)
\* the duplicate check of add_accounts switched off (mutant)
account_exists_never(j, q) == FALSE

\* add_accounts: a.qname in self._full_qname_dict
account_exists(j, q) == q \in DOMAIN j.full_qname_dict

\* add_accounts: parent and parent not in self._full_qname_dict
parent_missing(j, q) ==
    Parent(q) # None /\ Parent(q) \notin DOMAIN j.full_qname_dict

\* the list short_qname_dict holds for short_name after a is appended to it
ShortAppend(d, short_name, a) ==
    IF short_name \in DOMAIN d THEN Append(d[short_name], a) ELSE <<a>>

\* the loop over range(1, len(qlist)) of add_accounts: a is appended under
\* each of its proper suffixes
RegisterShort(d, a) ==
    LET q == a.qname
        keys == {Suffix(q, idx) : idx \in 1..(Len(q) - 1)}
    IN [x \in (DOMAIN d) \cup keys |->
            IF x \in keys THEN ShortAppend(d, x, a) ELSE d[x]]

\* the tail of add_accounts's loop body: a enters the full-name dictionary,
\* the account list and the short-name dictionary
Register(j, a) ==
    [j EXCEPT !.full_qname_dict = DictSet(j.full_qname_dict, a.qname, a),
              !.accounts = Append(j.accounts, a),
              !.short_qname_dict = RegisterShort(j.short_qname_dict, a)]

RECURSIVE add_accounts(_, _)
\* Journal.add_accounts: the accounts are handled one after the other; the
\* first that raises ends the call and leaves the earlier ones registered
add_accounts(j, accs) ==
    IF accs = <<>> THEN [j |-> j, err |-> NoError]
    ELSE
    LET a == Head(accs)
    IN IF account_exists(j, a.qname) THEN [j |-> j, err |-> "already exists"]
       ELSE
       LET pre == IF parent_missing(j, a.qname)
                  THEN IF j.auto_create_parents
                       THEN add_accounts(j, <<Account(Parent(a.qname))>>)
                       ELSE [j |-> j, err |-> "parent does not exist"]
                  ELSE [j |-> j, err |-> NoError]
       IN IF pre.err # NoError THEN pre
          ELSE add_accounts(Register(pre.j, a), Tail(accs))

(***************************************************************************)
(* Posting and Txn (posting.py)                                            *)
(***************************************************************************)
\* stmt_date=None: the statement date was not given
NoDate == 0

\* Posting.__init__: stmt_date defaults to date
Posting(txnid, date, acc_qname, amount, stmt_date) ==
    [txnid |-> txnid, date |-> date, acc_qname |-> acc_qname, amount |-> amount,
     stmt_date |-> IF stmt_date = NoDate THEN date ELSE stmt_date]

\* the amount of a posting built with amount=None
NoAmount == 0 - 99

\* sum([p.amount for p in postings]) meets a None amount: int + None
amount_is_none(ps) == \E i \in 1..Len(ps) : ps[i].amount = NoAmount

RECURSIVE SumAmounts(_)
\* sum([p.amount for p in postings])
SumAmounts(ps) ==
    IF ps = <<>> THEN 0 ELSE Head(ps).amount + SumAmounts(Tail(ps))

\* Txn.txnid: the txn id of the first posting
TxnId(t) == t.postings[1].txnid

\* Txn.date: the date of the first posting
TxnDate(t) == t.postings[1].date

\* Txn.is_1_n: not (more than one positive and more than one negative posting)
is_1_n(t) ==
    LET nbPos == {i \in 1..Len(t.postings) : t.postings[i].amount > 0}
        nbNeg == {i \in 1..Len(t.postings) : t.postings[i].amount < 0}
    IN IF Cardinality(nbPos) > 1 /\ Cardinality(nbNeg) > 1 THEN FALSE ELSE TRUE

\* the balance check of Txn.__init__ switched off (mutant)
not_balanced_never(ps) == FALSE

\* Txn.__init__: s = sum(...); s != 0
not_balanced(ps) == SumAmounts(ps) # 0

\* the date check of Txn.__init__ switched off (mutant)
dates_differ_never(ps) == FALSE

\* Txn.__init__: len(set(p.date for p in postings)) != 1
dates_differ(ps) == Cardinality({ps[i].date : i \in 1..Len(ps)}) # 1

\* Txn.__init__: len(set(p.txnid for p in postings)) != 1
txnids_differ(ps) == Cardinality({ps[i].txnid : i \in 1..Len(ps)}) # 1

\* Txn.__init__(postings, enforce_1_n): the error raised, or the transaction
Txn(ps, e1n) ==
    IF ps = <<>> THEN [err |-> "empty", txn |-> None]
    ELSE IF txnids_differ(ps) THEN [err |-> "txnid", txn |-> None]
    ELSE IF Len(ps) < 2 THEN [err |-> "at least two", txn |-> None]
    ELSE IF dates_differ(ps) THEN [err |-> "date", txn |-> None]
    ELSE IF amount_is_none(ps) THEN [err |-> "TypeError", txn |-> None]
    ELSE IF not_balanced(ps) THEN [err |-> "balance", txn |-> None]
    ELSE IF e1n /\ ~is_1_n([postings |-> ps]) THEN [err |-> "1_n", txn |-> None]
    ELSE [err |-> NoError, txn |-> [postings |-> ps]]

\* the key of Txn.simplify taken from the posting date (mutant)
simplify_key_by_date(p) == <<p.acc_qname, p.date>>

\* Txn.simplify: key = (p.acc_qname, p.stmt_date)
simplify_key(p) == <<p.acc_qname, p.stmt_date>>

RECURSIVE simplify_sums(_, _, _)
\* the first loop of Txn.simplify: d_sum, a dict read in insertion order, is
\* the sequence of its items [k |-> key, v |-> sum]
simplify_sums(ps, n, d_sum) ==
    IF n > Len(ps) THEN d_sum
    ELSE LET key == simplify_key(ps[n])
         IN simplify_sums(ps, n + 1,
              IF \E x \in 1..Len(d_sum) : d_sum[x].k = key
              THEN [x \in 1..Len(d_sum) |->
                      IF d_sum[x].k = key
                      THEN [d_sum[x] EXCEPT !.v = @ + ps[n].amount]
                      ELSE d_sum[x]]
              ELSE Append(d_sum, [k |-> key, v |-> ps[n].amount]))

\* Txn.simplify: None, or the transaction of one posting per key whose sum is
\* not zero, or the error its construction raises
simplify(t) ==
    LET d_sum == simplify_sums(t.postings, 1, <<>>)
        kept == SelectSeq(d_sum, LAMBDA e : e.v # 0)
        new_postings == [n \in 1..Len(kept) |->
                           Posting(TxnId(t), TxnDate(t), kept[n].k[1], kept[n].v,
                                   kept[n].k[2])]
    IN IF new_postings = <<>> THEN [err |-> NoError, txn |-> None]
       ELSE Txn(new_postings, is_1_n(t))

(***************************************************************************)
(* add_txns                                                                *)
(***************************************************************************)
\* add_txns: p.txnid in self.txns_dict
txnid_exists(j, txnid) == txnid \in DOMAIN j.txns_dict

\* add_txns: not self.is_leaf_account(p.acc_qname)
not_leaf(j, qname) == ~is_leaf_account(j, qname)

RECURSIVE validate_postings_as_written(_, _, _, _, _)
\* the inner loop of add_txns with the account of the posting kept as it is
\* written (mutant)
validate_postings_as_written(j, ps, id, ignore_txnid, done) ==
    IF ps = <<>> THEN [err |-> NoError, postings |-> done]
    ELSE
    LET p == Head(ps)
        p1 == IF ignore_txnid THEN [p EXCEPT !.txnid = id] ELSE p
    IN IF ~ignore_txnid /\ txnid_exists(j, p.txnid)
       THEN [err |-> "txn already exists", postings |-> done]
       ELSE IF ~is_valid_qname(j, p1.acc_qname)
       THEN [err |-> "account does not exist or is ambiguous", postings |-> done]
       ELSE IF not_leaf(j, p1.acc_qname)
       THEN [err |-> "not a leaf account", postings |-> done]
       ELSE validate_postings_as_written(j, Tail(ps), id, ignore_txnid,
                                         Append(done, p1))

RECURSIVE validate_postings(_, _, _, _, _)
\* the inner loop of add_txns over t.postings: each posting gets the id
\* (ignore_txnid) or has its own id checked, and its account is replaced by
\* the full qualified name, which must be a leaf.  done holds the postings
\* already rewritten.
validate_postings(j, ps, id, ignore_txnid, done) ==
    IF ps = <<>> THEN [err |-> NoError, postings |-> done]
    ELSE
    LET p == Head(ps)
        p1 == IF ignore_txnid THEN [p EXCEPT !.txnid = id] ELSE p
    IN IF ~ignore_txnid /\ txnid_exists(j, p.txnid)
       THEN [err |-> "txn already exists", postings |-> done]
       ELSE IF ~is_valid_qname(j, p1.acc_qname)
       THEN [err |-> "account does not exist or is ambiguous", postings |-> done]
       ELSE
       LET p2 == [p1 EXCEPT !.acc_qname = full_qname(j, p1.acc_qname).qname]
       IN IF not_leaf(j, p2.acc_qname)
          THEN [err |-> "not a leaf account", postings |-> done]
          ELSE validate_postings(j, Tail(ps), id, ignore_txnid, Append(done, p2))

RECURSIVE validate_txns(_, _, _, _, _)
\* the first loop of add_txns ("Validate postings"): returns the rewritten
\* transactions and the id counter, or the error of the first offending one
validate_txns(j, txns, id, ignore_txnid, done) ==
    IF txns = <<>> THEN [err |-> NoError, txns |-> done, id |-> id]
    ELSE
    LET t == Head(txns)
    IN IF j.enforce_1_n /\ ~is_1_n(t)
       THEN [err |-> "1_n", txns |-> done, id |-> id]
       ELSE
       LET v == validate_postings(j, t.postings, id, ignore_txnid, <<>>)
       IN IF v.err # NoError THEN [err |-> v.err, txns |-> done, id |-> id]
          ELSE validate_txns(j, Tail(txns), id + 1, ignore_txnid,
                             Append(done, [postings |-> v.postings]))

RECURSIVE commit_txns(_, _)
\* the second loop of add_txns: self.txns_dict[t.txnid] = t and
\* self.postings.extend(t.postings)
commit_txns(j, txns) ==
    IF txns = <<>> THEN j
    ELSE LET t == Head(txns)
         IN commit_txns([j EXCEPT !.txns_dict = DictSet(j.txns_dict, TxnId(t), t),
                                  !.postings = j.postings \o t.postings],
                        Tail(txns))

\* max((t.txnid for t in txns), default=0)
MaxTxnId(txns) ==
    IF txns = <<>> THEN 0
    ELSE CHOOSE m \in {TxnId(txns[i]) : i \in 1..Len(txns)} :
            \A i \in 1..Len(txns) : TxnId(txns[i]) <= m

\* the next txn id taken from the batch alone, whatever the journal held
\* (mutant)
next_id_after_batch_max(j, txns, id, ignore_txnid) ==
    IF ignore_txnid THEN id ELSE MaxTxnId(txns) + 1

\* the end of add_txns: the next txn id after the batch
next_id_after(j, txns, id, ignore_txnid) ==
    IF ignore_txnid THEN id
    ELSE IF MaxTxnId(txns) + 1 > j.next_txn_id THEN MaxTxnId(txns) + 1
    ELSE j.next_txn_id

\* add_txns with the commit done although validation raised (mutant)
add_txns_commit_anyway(j, txns, ignore_txnid) ==
    LET v == validate_txns(j, txns, j.next_txn_id, ignore_txnid, <<>>)
    IN [j |-> [commit_txns(j, v.txns) EXCEPT
                   !.next_txn_id = next_id_after(j, v.txns, v.id, ignore_txnid)],
        err |-> v.err, txns |-> v.txns]

\* Journal.add_txns(txns, ignore_txnid): every transaction is validated, then
\* every transaction is committed.  The transactions of the batch are
\* distinct objects, none of them held by the journal already.
add_txns(j, txns, ignore_txnid) ==
    LET v == validate_txns(j, txns, j.next_txn_id, ignore_txnid, <<>>)
    IN IF v.err # NoError THEN [j |-> j, err |-> v.err, txns |-> <<>>]
       ELSE [j |-> [commit_txns(j, v.txns) EXCEPT
                        !.next_txn_id = next_id_after(j, v.txns, v.id, ignore_txnid)],
             err |-> NoError, txns |-> v.txns]

(***************************************************************************)
(* BAssertion and add_bassertions                                          *)
(***************************************************************************)
\* BAssertion.__init__
BAssertion(date, acc_qname, balance) ==
    [date |-> date, acc_qname |-> acc_qname, balance |-> balance]

\* the assertion kept under the name it was written with (mutant)
resolved_bassertion_as_written(j, b) == b

\* add_bassertions: b.acc_qname = self.full_qname(b.acc_qname)
resolved_bassertion(j, b) ==
    [b EXCEPT !.acc_qname = full_qname(j, b.acc_qname).qname]

RECURSIVE validate_bassertions(_, _, _)
\* the first loop of add_bassertions: each assertion's account is replaced by
\* the full qualified name and its key enters _bassertions_set at once
validate_bassertions(j, bs, done) ==
    IF bs = <<>> THEN [j |-> j, err |-> NoError, bassertions |-> done]
    ELSE
    LET b == Head(bs)
    IN IF ~is_valid_qname(j, b.acc_qname)
       THEN [j |-> j, err |-> "account does not exist or is ambiguous",
             bassertions |-> done]
       ELSE
       LET b1 == resolved_bassertion(j, b)
           key == <<b1.date, b1.acc_qname>>
       IN IF key \in j.bassertions_set
          THEN [j |-> j, err |-> "bassertion already exists", bassertions |-> done]
          ELSE validate_bassertions(
                   [j EXCEPT !.bassertions_set = j.bassertions_set \cup {key}],
                   Tail(bs), Append(done, b1))

\* Journal.add_bassertions(bassertions)
add_bassertions(j, bs) ==
    LET v == validate_bassertions(j, bs, <<>>)
    IN IF v.err # NoError THEN [j |-> v.j, err |-> v.err]
       ELSE [j |-> [v.j EXCEPT !.bassertions = v.j.bassertions \o v.bassertions],
             err |-> NoError]

(***************************************************************************)
(* balance and adjust_for_bassertions                                      *)
(***************************************************************************)
RECURSIVE SumWhere(_, _, _, _)
\* the loop of balance: the amounts of the postings dated <= dt on full_qname
\* or a descendant
\* "get_date(p) <= dt and p.acc_qname.is_equal_or_descendant_of(...)": the
\* call is made for the postings dated <= dt only, and the first one made
\* ends the loop with its error
SumWhere(ps, dt, full, use_stmt_date) ==
    IF ps = <<>> THEN [err |-> NoError, value |-> 0]
    ELSE LET p == Head(ps)
             d == IF use_stmt_date THEN p.stmt_date ELSE p.date
         IN IF d > dt THEN SumWhere(Tail(ps), dt, full, use_stmt_date)
            ELSE
            LET under == is_equal_or_descendant_of(p.acc_qname, full)
            IN IF under.err # NoError THEN [err |-> under.err, value |-> 0]
               ELSE
               LET rest == SumWhere(Tail(ps), dt, full, use_stmt_date)
               IN [err |-> rest.err,
                   value |-> IF rest.err # NoError THEN 0
                             ELSE (IF under.value THEN p.amount ELSE 0) + rest.value]

\* Journal.balance(dt, qname, use_stmt_date), qname resolves: the balance,
\* or the error raised in the loop
balance(j, dt, qname, use_stmt_date) ==
    SumWhere(j.postings, dt, full_qname(j, qname).qname, use_stmt_date)

\* Journal.flow(start_date, end_date, qname, use_stmt_date), qname resolves;
\* a date is a day number, start_date - timedelta(days=1) is start_date - 1;
\* the balance at end_date is computed first
flow(j, start_date, end_date, qname, use_stmt_date) ==
    IF start_date > end_date
    THEN [err |-> "start_date must be before end_date", amount |-> 0]
    ELSE
    LET to_end == balance(j, end_date, qname, use_stmt_date)
    IN IF to_end.err # NoError THEN [err |-> to_end.err, amount |-> 0]
       ELSE
       LET to_start == balance(j, start_date - 1, qname, use_stmt_date)
       IN IF to_start.err # NoError THEN [err |-> to_start.err, amount |-> 0]
          ELSE [err |-> NoError, amount |-> to_end.value - to_start.value]

RECURSIVE SortByDate(_)
\* bs.sort(key=lambda x: x.date): a stable sort
SortByDate(bs) ==
    IF bs = <<>> THEN <<>>
    ELSE LET first == CHOOSE i \in 1..Len(bs) :
                        /\ \A k \in 1..Len(bs) : bs[i].date <= bs[k].date
                        /\ \A k \in 1..(i - 1) : bs[k].date # bs[i].date
             rest == [k \in 1..(Len(bs) - 1) |-> IF k < first THEN bs[k] ELSE bs[k + 1]]
         IN <<bs[first]>> \o SortByDate(rest)

\* [b for b in self.bassertions if b.acc_qname == full_qname]
SelectAccount(bs, full) == SelectSeq(bs, LAMBDA b : b.acc_qname = full)

\* Journal.account_bassertions(qname), qname resolves
account_bassertions(j, qname) ==
    SortByDate(SelectAccount(j.bassertions, full_qname(j, qname).qname))

(***************************************************************************)
(* failed_bassertions                                                      *)
(***************************************************************************)
RECURSIVE SortByStmtDate(_)
\* sorted(self.postings, key=lambda x: x.stmt_date): a stable sort
SortByStmtDate(ps) ==
    IF ps = <<>> THEN <<>>
    ELSE LET first == CHOOSE i \in 1..Len(ps) :
                        /\ \A k \in 1..Len(ps) : ps[i].stmt_date <= ps[k].stmt_date
                        /\ \A k \in 1..(i - 1) : ps[k].stmt_date # ps[i].stmt_date
             rest == [k \in 1..(Len(ps) - 1) |-> IF k < first THEN ps[k] ELSE ps[k + 1]]
         IN <<ps[first]>> \o SortByStmtDate(rest)

RECURSIVE advance_balances(_, _, _, _)
\* the while loop of failed_bassertions: the postings from place ps_idx on
\* whose statement date is <= dt are added to acc_balance (ps_idx counts
\* from 1 here, from 0 in the code)
advance_balances(ps, ps_idx, acc_balance, dt) ==
    IF ps_idx > Len(ps) THEN [ps_idx |-> ps_idx, acc_balance |-> acc_balance]
    ELSE LET p == ps[ps_idx]
         IN IF p.stmt_date > dt
            THEN [ps_idx |-> ps_idx, acc_balance |-> acc_balance]
            ELSE advance_balances(
                     ps, ps_idx + 1,
                     DictSet(acc_balance, p.acc_qname,
                             (IF p.acc_qname \in DOMAIN acc_balance
                              THEN acc_balance[p.acc_qname] ELSE 0) + p.amount),
                     dt)

RECURSIVE sum_under(_, _, _)
\* the for loop over acc_balance.items(): the balances of the accounts of
\* the set keys that are qname or a descendant of it; the first call of
\* is_equal_or_descendant_of ends the loop with its error
sum_under(acc_balance, keys, qname) ==
    IF keys = {} THEN [err |-> NoError, value |-> 0]
    ELSE LET a == CHOOSE a \in keys : TRUE
             under == is_equal_or_descendant_of(a, qname)
         IN IF under.err # NoError THEN [err |-> under.err, value |-> 0]
            ELSE
            LET rest == sum_under(acc_balance, keys \ {a}, qname)
            IN [err |-> rest.err,
                value |-> IF rest.err # NoError THEN 0
                          ELSE (IF under.value THEN acc_balance[a] ELSE 0) + rest.value]

RECURSIVE sweep_bassertions(_, _, _, _, _, _, _)
\* the for loop of failed_bassertions over the sorted assertions bs
sweep_bassertions(bs, ps, ps_idx, acc_balance, filter_future_date, today, ls) ==
    IF bs = <<>> THEN [err |-> NoError, ls |-> ls]
    ELSE
    LET b == Head(bs)
    IN IF filter_future_date /\ b.date > today THEN [err |-> NoError, ls |-> ls]
       ELSE
       LET adv == advance_balances(ps, ps_idx, acc_balance, b.date)
           actual == sum_under(adv.acc_balance, DOMAIN adv.acc_balance, b.acc_qname)
       IN IF actual.err # NoError THEN [err |-> actual.err, ls |-> <<>>]
          ELSE sweep_bassertions(Tail(bs), ps, adv.ps_idx, adv.acc_balance,
                                 filter_future_date, today,
                                 IF b.balance # actual.value THEN Append(ls, b) ELSE ls)

\* Journal.failed_bassertions(filter_future_date, today), today given: the
\* list returned, or the error raised in the sweep
failed_bassertions(j, filter_future_date, today) ==
    sweep_bassertions(SortByDate(j.bassertions), SortByStmtDate(j.postings),
                      1, EmptyDict, filter_future_date, today, <<>>)

(***************************************************************************)
(* subset_sum and find_subset.  sum_dict, a dict read in insertion order,  *)
(* is the sequence of its items [k |-> sum, v |-> list of positions]; the  *)
(* positions returned count from 0 as in the code.                         *)
(***************************************************************************)
\* the keys of sum_dict
DictKeys(sum_dict) == {sum_dict[n].k : n \in 1..Len(sum_dict)}

\* sum_dict[k], k a key
DictGet(sum_dict, k) ==
    sum_dict[CHOOSE n \in 1..Len(sum_dict) : sum_dict[n].k = k].v

RECURSIVE extend_sums_always(_, _, _, _, _)
\* the inner loop of subset_sum entering k + p whether or not it is a key
\* already (mutant)
extend_sums_always(items, n, sum_dict, p, i) ==
    IF n > Len(items) THEN sum_dict
    ELSE extend_sums_always(items, n + 1,
                            Append(sum_dict, [k |-> items[n].k + p,
                                              v |-> Append(items[n].v, i)]),
                            p, i)

RECURSIVE extend_sums(_, _, _, _, _)
\* the inner loop of subset_sum over list(sum_dict.items()): every sum k of
\* the copy gives k + p, entered with v + [i] when it is not a key yet
extend_sums(items, n, sum_dict, p, i) ==
    IF n > Len(items) THEN sum_dict
    ELSE LET new_sum == items[n].k + p
         IN extend_sums(items, n + 1,
                        IF new_sum \notin DictKeys(sum_dict)
                        THEN Append(sum_dict, [k |-> new_sum, v |-> Append(items[n].v, i)])
                        ELSE sum_dict,
                        p, i)

RECURSIVE subset_sum_from_dict_first(_, _, _, _)
\* the loop of subset_sum with sum_dict looked up before p is compared with
\* the target (mutant)
subset_sum_from_dict_first(amounts, i, sum_dict, target) ==
    IF i >= Len(amounts) THEN <<>>
    ELSE
    LET p == amounts[i + 1]
        diff == target - p
    IN IF diff \in DictKeys(sum_dict) THEN Append(DictGet(sum_dict, diff), i)
       ELSE IF diff = 0 THEN <<i>>
       ELSE
       LET extended == extend_sums(sum_dict, 1, sum_dict, p, i)
       IN subset_sum_from_dict_first(amounts, i + 1,
                          IF p \notin DictKeys(extended)
                          THEN Append(extended, [k |-> p, v |-> <<i>>])
                          ELSE extended,
                          target)

RECURSIVE subset_sum_from(_, _, _, _)
\* the loop of subset_sum from position i (counted from 0) on
subset_sum_from(amounts, i, sum_dict, target) ==
    IF i >= Len(amounts) THEN <<>>
    ELSE
    LET p == amounts[i + 1]
        diff == target - p
    IN IF diff = 0 THEN <<i>>
       ELSE IF diff \in DictKeys(sum_dict) THEN Append(DictGet(sum_dict, diff), i)
       ELSE
       LET extended == extend_sums(sum_dict, 1, sum_dict, p, i)
       IN subset_sum_from(amounts, i + 1,
                          IF p \notin DictKeys(extended)
                          THEN Append(extended, [k |-> p, v |-> <<i>>])
                          ELSE extended,
                          target)

\* subset_sum with the test "is p the target?" left out (mutant)
subset_sum_no_single(amounts, target) ==
    IF \E i \in 1..Len(amounts) : amounts[i] = target
    THEN <<>>
    ELSE subset_sum_from(amounts, 0, <<>>, target)

\* subset_sum(amounts, target)
subset_sum(amounts, target) == subset_sum_from(amounts, 0, <<>>, target)

\* one pass of the loop of subset_sum at position i (counted from 0): the
\* function returns ls, the list held by sum_dict with i appended to it, or
\* sum_dict takes the sums that p makes
subset_sum_pass(amounts, i, sum_dict, target) ==
    LET p == amounts[i + 1]
        diff == target - p
    IN IF diff = 0 THEN [returned |-> TRUE, ret |-> <<i>>, sum_dict |-> sum_dict]
       ELSE IF diff \in DictKeys(sum_dict)
       THEN [returned |-> TRUE, ret |-> Append(DictGet(sum_dict, diff), i),
             sum_dict |-> [n \in 1..Len(sum_dict) |->
                             IF sum_dict[n].k = diff
                             THEN [sum_dict[n] EXCEPT !.v = Append(@, i)]
                             ELSE sum_dict[n]]]
       ELSE
       LET extended == extend_sums(sum_dict, 1, sum_dict, p, i)
       IN [returned |-> FALSE, ret |-> <<>>,
           sum_dict |-> IF p \notin DictKeys(extended)
                        THEN Append(extended, [k |-> p, v |-> <<i>>])
                        ELSE extended]

\* find_subset's get_date(p)
get_date(p, use_stmt_date) == IF use_stmt_date THEN p.stmt_date ELSE p.date

RECURSIVE SortByDateDesc(_, _)
\* ps.sort(key=lambda p: get_date(p), reverse=True): latest first, postings of
\* one date in their former order
SortByDateDesc(ps, use_stmt_date) ==
    IF ps = <<>> THEN <<>>
    ELSE LET first == CHOOSE i \in 1..Len(ps) :
                        /\ \A k \in 1..Len(ps) :
                              get_date(ps[k], use_stmt_date) <= get_date(ps[i], use_stmt_date)
                        /\ \A k \in 1..(i - 1) :
                              get_date(ps[k], use_stmt_date) # get_date(ps[i], use_stmt_date)
             rest == [k \in 1..(Len(ps) - 1) |-> IF k < first THEN ps[k] ELSE ps[k + 1]]
         IN <<ps[first]>> \o SortByDateDesc(rest, use_stmt_date)

\* Journal.find_subset(amnt, qname, start_date, end_date, use_stmt_date),
\* qname resolves: None, or the postings found
find_subset(j, amnt, qname, start_date, end_date, use_stmt_date) ==
    LET full == full_qname(j, qname).qname
        ps == SortByDateDesc(
                  SelectSeq(j.postings,
                            LAMBDA p : /\ p.acc_qname = full
                                       /\ get_date(p, use_stmt_date) <= end_date
                                       /\ get_date(p, use_stmt_date) >= start_date),
                  use_stmt_date)
        subset == subset_sum([i \in 1..Len(ps) |-> ps[i].amount], amnt)
    IN IF subset = <<>> THEN None
       ELSE [k \in 1..Len(subset) |-> ps[subset[k] + 1]]

RECURSIVE adjust_assertions(_, _, _, _, _, _)
\* the inner loop of adjust_for_bassertions over the assertions bs of one
\* account: a two-posting transaction per assertion that fails
adjust_assertions(j, bs, child, counterpart, force_zero_txn, done) ==
    IF bs = <<>> THEN [j |-> j, err |-> NoError, txns |-> done]
    ELSE
    LET b == Head(bs)
        actual == balance(j, b.date, b.acc_qname, TRUE)
        diff == b.balance - actual.value
    IN IF actual.err # NoError THEN [j |-> j, err |-> actual.err, txns |-> done]
       ELSE IF diff = 0 /\ ~force_zero_txn
       THEN adjust_assertions(j, Tail(bs), child, counterpart, force_zero_txn, done)
       ELSE
       LET txnid == j.next_txn_id
           p1 == Posting(txnid, b.date, child, diff, NoDate)
           p2 == Posting(txnid, b.date, counterpart, 0 - diff, NoDate)
           t == Txn(<<p1, p2>>, FALSE)
       IN IF t.err # NoError THEN [j |-> j, err |-> t.err, txns |-> done]
          ELSE
          LET r == add_txns(j, <<t.txn>>, FALSE)
          IN IF r.err # NoError THEN [j |-> j, err |-> r.err, txns |-> done]
             ELSE adjust_assertions(r.j, Tail(bs), child, counterpart,
                                    force_zero_txn, done \o r.txns)

RECURSIVE adjust_accounts(_, _, _, _, _, _)
\* the outer loop of adjust_for_bassertions over zip(accounts, counterparts,
\* children); a child of None stands for the account itself, and only a
\* child that is given is tested with is_equal_or_descendant_of.  An error
\* leaves in the journal the transactions added before it
adjust_accounts(j, accs, counterparts, children, force_zero_txn, done) ==
    IF accs = <<>> THEN [j |-> j, err |-> NoError, txns |-> done]
    ELSE
    LET acc == full_qname(j, Head(accs))
        counterpart == full_qname(j, Head(counterparts))
    IN IF acc.err # NoError THEN [j |-> j, err |-> acc.err, txns |-> done]
       ELSE IF counterpart.err # NoError
       THEN [j |-> j, err |-> counterpart.err, txns |-> done]
       ELSE
       LET child == IF Head(children) = None
                    THEN [err |-> NoError, qname |-> acc.qname]
                    ELSE full_qname(j, Head(children))
           under == IF Head(children) = None \/ child.err # NoError
                    THEN [err |-> NoError, value |-> TRUE]
                    ELSE is_equal_or_descendant_of(child.qname, acc.qname)
       IN IF child.err # NoError THEN [j |-> j, err |-> child.err, txns |-> done]
          ELSE IF under.err # NoError THEN [j |-> j, err |-> under.err, txns |-> done]
          ELSE IF ~under.value
          THEN [j |-> j, err |-> "child must be a descendant", txns |-> done]
          ELSE
          LET r == adjust_assertions(j, account_bassertions(j, acc.qname),
                                     child.qname, counterpart.qname,
                                     force_zero_txn, done)
          IN IF r.err # NoError THEN r
             ELSE adjust_accounts(r.j, Tail(accs), Tail(counterparts),
                                  Tail(children), force_zero_txn, r.txns)

\* Journal.adjust_for_bassertions(accounts, counterparts, children,
\* force_zero_txn); children is a list as long as accounts
adjust_for_bassertions(j, accs, counterparts, children, force_zero_txn) ==
    IF Len(accs) # Len(counterparts) \/ Len(accs) # Len(children)
    THEN [j |-> j, err |-> "same length", txns |-> <<>>]
    ELSE adjust_accounts(j, accs, counterparts, children, force_zero_txn, <<>>)

(***************************************************************************)
(* Budget targets: RPosting, add_targets and budget_txns.  A recurrence is *)
(* daily: frequency None is the interval 0, a missing count is the count 0 *)
(* (rrule is handed the count only when it is truthy).                     *)
(***************************************************************************)
RPosting(start, acc_qname, amount, interval, count) ==
    [start |-> start, acc_qname |-> acc_qname, amount |-> amount,
     interval |-> interval, count |-> count]

\* self._rrule.between(sd, ed, inc=True): the occurrences within [sd, ed],
\* in ascending order
rrule_between(t, sd, ed) ==
    IF t.interval = 0
    THEN IF sd <= t.start /\ t.start <= ed THEN <<t.start>> ELSE <<>>
    ELSE SelectSeq([i \in 1..(IF ed < sd THEN 0 ELSE ed - sd + 1) |-> sd + i - 1],
                   LAMBDA d : /\ d >= t.start
                              /\ (d - t.start) % t.interval = 0
                              /\ \/ t.count = 0
                                 \/ (d - t.start) \div t.interval < t.count)

\* RPosting.postings_between(start, end, txnid): one posting per occurrence,
\* numbered from txnid
postings_between(t, start, end, txnid) ==
    LET ds == rrule_between(t, start, end)
    IN [k \in 1..Len(ds) |->
          Posting(txnid + k - 1, ds[k], t.acc_qname, t.amount, NoDate)]

RECURSIVE validate_targets(_, _, _)
\* the first loop of add_targets: the account of every target must resolve
\* to a leaf and is replaced by its full name
validate_targets(j, ts, done) ==
    IF ts = <<>> THEN [err |-> NoError, targets |-> done]
    ELSE LET t == Head(ts)
         IN IF ~is_valid_qname(j, t.acc_qname)
            THEN [err |-> "account does not exist or is ambiguous", targets |-> done]
            ELSE IF not_leaf(j, t.acc_qname)
            THEN [err |-> "not a leaf account", targets |-> done]
            ELSE validate_targets(j, Tail(ts),
                     Append(done, [t EXCEPT !.acc_qname =
                                      full_qname(j, t.acc_qname).qname]))

\* Journal.add_targets(targets)
add_targets(j, ts) ==
    LET v == validate_targets(j, ts, <<>>)
    IN IF v.err # NoError THEN [j |-> j, err |-> v.err]
       ELSE [j |-> [j EXCEPT !.targets = j.targets \o v.targets], err |-> NoError]

RECURSIVE budget_targets(_, _, _, _, _, _)
\* the loop of budget_txns over self.targets: a two-posting transaction
\* against counterpart for every posting of every target; id counts them
budget_targets(ts, start_date, end_date, counterpart, id, done) ==
    IF ts = <<>> THEN [err |-> NoError, txns |-> done, id |-> id]
    ELSE
    LET xs == postings_between(Head(ts), start_date, end_date, id)
        made == [k \in 1..Len(xs) |->
                   Txn(<< xs[k],
                          Posting(xs[k].txnid, xs[k].date, counterpart,
                                  0 - xs[k].amount, xs[k].stmt_date) >>, FALSE)]
        bad == {k \in 1..Len(xs) : made[k].err # NoError}
    IN IF bad # {}
       THEN [err |-> made[CHOOSE k \in bad : \A l \in bad : k <= l].err,
             txns |-> done, id |-> id]
       ELSE budget_targets(Tail(ts), start_date, end_date, counterpart,
                           id + Len(xs),
                           done \o [k \in 1..Len(xs) |-> made[k].txn])

\* Journal.budget_txns(start_date, end_date, counterpart): the transactions
\* are returned, not added; the ids they carry are taken from next_txn_id
budget_txns(j, start_date, end_date, counterpart) ==
    LET r == budget_targets(j.targets, start_date, end_date, counterpart,
                            j.next_txn_id, <<>>)
    IN IF r.err # NoError THEN [j |-> j, err |-> r.err, txns |-> <<>>]
       ELSE [j |-> [j EXCEPT !.next_txn_id = r.id], err |-> NoError,
             txns |-> r.txns]

(***************************************************************************)
(* Inputs of the chart specification: the names of test_short_qnames_2     *)
(* (Assets, Checking, Savings, Foo as A, C, S, F).                         *)
(***************************************************************************)
ChartNames ==
    { <<"A">>, <<"A", "C">>, <<"A", "C", "F">>, <<"A", "S">>,
      <<"A", "S", "F">>, <<"C">>, <<"C", "F">> }

\* the names looked up: every suffix of a chart name, and names of no account
QueryNames ==
    UNION { {Suffix(q, i) : i \in 1..Len(q)} : q \in ChartNames }
      \cup { <<"F", "A">>, <<"X">> }

RECURSIVE SeqsUpTo(_, _)
\* the sequences over S of length 1..n
SeqsUpTo(S, n) ==
    IF n = 0 THEN {}
    ELSE LET shorter == SeqsUpTo(S, n - 1)
         IN { <<x>> : x \in S } \cup shorter
              \cup { Append(s, x) : s \in shorter, x \in S }

ChartBatches == SeqsUpTo({Account(q) : q \in ChartNames}, MaxBatch)

(***************************************************************************)
(* State machine                                                           *)
(***************************************************************************)
\* the variables take the fields of the journal record j
Becomes(j) ==
    /\ accounts' = j.accounts
    /\ full_qname_dict' = j.full_qname_dict
    /\ short_qname_dict' = j.short_qname_dict
    /\ postings' = j.postings
    /\ txns_dict' = j.txns_dict
    /\ next_txn_id' = j.next_txn_id
    /\ bassertions' = j.bassertions
    /\ bassertions_set' = j.bassertions_set
    /\ auto_create_parents' = j.auto_create_parents
    /\ enforce_1_n' = j.enforce_1_n
    /\ targets' = j.targets

\* the record of a call: the operation, the kind of error it raised (NoError
\* when it returned) and the number of items it added to the journal's list
Called(op, err, n) == [op |-> op, err |-> err, n |-> n]

\* no Txn(...) construction is under way
NoTxnArg == [postings |-> <<>>, enforce_1_n |-> FALSE]

NoTxnRet == [err |-> "no call", txn |-> None]

\* Txn(...) was called and has not returned yet
PendingTxnRet == [err |-> "pending", txn |-> None]

Init ==
    /\ \E e1n \in BOOLEAN :
          /\ accounts = <<>>
          /\ full_qname_dict = EmptyDict
          /\ short_qname_dict = EmptyDict
          /\ postings = <<>>
          /\ txns_dict = EmptyDict
          /\ next_txn_id = 1
          /\ bassertions = <<>>
          /\ bassertions_set = {}
          /\ auto_create_parents = FALSE
          /\ enforce_1_n = e1n
          /\ targets = <<>>
    /\ last = Called("init", NoError, 0)
    /\ txn_arg = NoTxnArg
    /\ txn_ret = NoTxnRet

\* j.add_accounts(batch) on the chart names
ChartAddAccounts ==
    \E batch \in ChartBatches :
      \E r \in {add_accounts(J, batch)} :
           /\ Becomes(r.j)
           /\ last' = Called("add_accounts", r.err,
                              Len(r.j.accounts) - Len(accounts))
           /\ UNCHANGED <<txn_arg, txn_ret>>

\* j.auto_create_parents = not j.auto_create_parents (test_auto_create_parent)
SetAutoCreateParents ==
    /\ Becomes([J EXCEPT !.auto_create_parents = ~auto_create_parents])
    /\ last' = Called("set_auto_create_parents", NoError, 0)
    /\ UNCHANGED <<txn_arg, txn_ret>>

ChartInit ==
    /\ Init
    /\ enforce_1_n = FALSE

ChartNext == ChartAddAccounts \/ SetAutoCreateParents

SpecChart == ChartInit /\ [][ChartNext]_vars

(***************************************************************************)
(* Inputs of the journal specifications.  The chart grows from A and E to  *)
(* A:C and then A:C:C: C is first unknown, then the short name of A:C,     *)
(* then ambiguous; A and then A:C turn from leaf to branch.                *)
(***************************************************************************)
Dates == {1, 2}

JAccountBatches ==
    { <<Account(<<"A">>), Account(<<"E">>)>>,
      <<Account(<<"A", "C">>)>>,
      <<Account(<<"A", "C", "C">>)>> }

\* the posting list of amount m on x against E
Pair(txnid, date, x, m) ==
    << Posting(txnid, date, x, m, NoDate),
       Posting(txnid, date, <<"E">>, 0 - m, NoDate) >>

\* a balanced posting list with two positive and two negative postings
Quad(txnid, date) ==
    << Posting(txnid, date, <<"A">>, 1, NoDate),
       Posting(txnid, date, <<"A">>, 1, NoDate),
       Posting(txnid, date, <<"E">>, 0 - 1, NoDate),
       Posting(txnid, date, <<"E">>, 0 - 1, NoDate) >>

\* a posting list that does not balance
Unbalanced(txnid, date) ==
    << Posting(txnid, date, <<"A">>, 1, NoDate),
       Posting(txnid, date, <<"E">>, 0 - 2, NoDate) >>

\* the account names written in postings: a full name and a short name
JPostingRefs == { <<"A">>, <<"C">> }

\* the posting lists of the transaction specification, with the txn ids 1 and 2
JPostingLists ==
    { Pair(id, 1, x, 1) : id \in {1, 2}, x \in JPostingRefs }
      \cup { Quad(1, 1), Unbalanced(1, 1) }

\* batches of one and of two posting lists, each to be made a Txn
JTxnBatches ==
    { <<ps>> : ps \in JPostingLists }
      \cup { <<ps, qs>> : ps \in JPostingLists, qs \in JPostingLists }

\* with ignore_txnid the ids written in the postings are overwritten: the
\* batches with txn id 1 stand for all
JTxnCalls ==
    { [batch |-> bt, ignore_txnid |-> FALSE] : bt \in JTxnBatches }
      \cup { [batch |-> bt, ignore_txnid |-> TRUE] :
               bt \in { b \in JTxnBatches :
                          \A i \in 1..Len(b) : b[i][1].txnid = 1 } }

\* [Txn(ps) for ps in batch], or the error of the first construction that raises
MakeTxns(batch) ==
    LET made == [i \in 1..Len(batch) |-> Txn(batch[i], FALSE)]
        bad == {i \in 1..Len(batch) : made[i].err # NoError}
    IN IF bad = {}
       THEN [err |-> NoError, txns |-> [i \in 1..Len(batch) |-> made[i].txn]]
       ELSE [err |-> made[CHOOSE i \in bad : \A k \in bad : i <= k].err,
             txns |-> <<>>]

\* j.add_txns([Txn(ps) for ps in batch], ignore_txnid=...): what the call
\* leaves behind; a Txn(ps) that raises leaves the journal untouched
MakeAndAddTxns(j, batch, ignore_txnid) ==
    LET made == MakeTxns(batch)
    IN IF made.err # NoError
       THEN [j |-> j, op |-> "Txn", err |-> made.err]
       ELSE LET r == add_txns(j, made.txns, ignore_txnid)
            IN [j |-> r.j, op |-> "add_txns", err |-> r.err]

(***************************************************************************)
(* The transaction specification: add_accounts and add_txns                *)
(***************************************************************************)
\* j.add_accounts(batch)
AddAccounts ==
    \E batch \in JAccountBatches :
      \E r \in {add_accounts(J, batch)} :
           /\ Becomes(r.j)
           /\ last' = Called("add_accounts", r.err,
                              Len(r.j.accounts) - Len(accounts))
           /\ UNCHANGED <<txn_arg, txn_ret>>

\* j.add_txns([Txn(ps) for ps in batch], ignore_txnid=...)
AddTxns ==
    \E call \in JTxnCalls :
      \E r \in {MakeAndAddTxns(J, call.batch, call.ignore_txnid)} :
           /\ Len(r.j.postings) <= 2 * MaxTxns
           /\ Becomes(r.j)
           /\ last' = Called(r.op, r.err, Len(r.j.postings) - Len(postings))
           /\ UNCHANGED <<txn_arg, txn_ret>>

Next == AddAccounts \/ AddTxns

Spec == Init /\ [][Next]_vars

(***************************************************************************)
(* The assertion specification: add_accounts and add_bassertions           *)
(***************************************************************************)
\* the assertions name a branch, a short name and the full name it stands for
JBAssertions ==
    { BAssertion(d, x, 1) : d \in Dates, x \in { <<"A">>, <<"C">>, <<"A", "C">> } }

JBAssertionBatches ==
    { <<b>> : b \in JBAssertions }
      \cup { <<b, c>> : b \in JBAssertions, c \in JBAssertions }

\* j.add_bassertions(batch)
AddBAssertions ==
    \E batch \in JBAssertionBatches :
      \E r \in {add_bassertions(J, batch)} :
           /\ Len(r.j.bassertions) <= MaxBAssertions
           /\ Becomes(r.j)
           /\ last' = Called("add_bassertions", r.err,
                              Len(r.j.bassertions) - Len(bassertions))
           /\ UNCHANGED <<txn_arg, txn_ret>>

AssertInit ==
    /\ Init
    /\ enforce_1_n = FALSE

AssertNext == AddAccounts \/ AddBAssertions

SpecAssert == AssertInit /\ [][AssertNext]_vars

(***************************************************************************)
(* The adjustment specification: transactions and assertions are added one *)
(* at a time on the chart A, E, A:C, and adjust_for_bassertions adjusts    *)
(* the journal for the assertions of one account.                          *)
(***************************************************************************)
AdjAccountBatches ==
    { <<Account(<<"A">>), Account(<<"E">>)>>,
      <<Account(<<"A", "C">>)>> }

AdjPostingLists ==
    { Pair(1, d, <<"C">>, 1) : d \in Dates } \cup { Unbalanced(1, 1) }

AdjBAssertions ==
    { BAssertion(d, <<"A">>, m) : d \in Dates, m \in {0, 1} }
      \cup { BAssertion(d, <<"C">>, 1) : d \in Dates }

\* j.add_accounts(batch)
AdjAddAccounts ==
    \E batch \in AdjAccountBatches :
      \E r \in {add_accounts(J, batch)} :
           /\ Becomes(r.j)
           /\ last' = Called("add_accounts", r.err,
                              Len(r.j.accounts) - Len(accounts))
           /\ UNCHANGED <<txn_arg, txn_ret>>

\* j.add_txns(Txn(ps))
AdjAddTxn ==
    \E ps \in AdjPostingLists :
      \E r \in {MakeAndAddTxns(J, <<ps>>, TRUE)} :
           /\ Len(r.j.postings) <= 2 * MaxTxns
           /\ Becomes(r.j)
           /\ last' = Called(r.op, r.err, Len(r.j.postings) - Len(postings))
           /\ UNCHANGED <<txn_arg, txn_ret>>

\* j.add_bassertions(b)
AdjAddBAssertion ==
    \E b \in AdjBAssertions :
      \E r \in {add_bassertions(J, <<b>>)} :
           /\ Len(r.j.bassertions) <= MaxBAssertions
           /\ Becomes(r.j)
           /\ last' = Called("add_bassertions", r.err,
                              Len(r.j.bassertions) - Len(bassertions))
           /\ UNCHANGED <<txn_arg, txn_ret>>

\* the accounts, counterparts and children handed to adjust_for_bassertions:
\* A adjusted on itself or on its child C, C alone, and A and C together
AdjustCalls ==
    { [accounts |-> << <<"A">> >>, counterparts |-> << <<"E">> >>, children |-> <<child>>] :
        child \in { None, <<"C">> } }
      \cup { [accounts |-> << <<"C">> >>, counterparts |-> << <<"E">> >>,
              children |-> <<None>>] }
      \cup { [accounts |-> << <<"A">>, <<"C">> >>,
              counterparts |-> << <<"E">>, <<"E">> >>,
              children |-> << <<"C">>, None >>] }

\* j.adjust_for_bassertions(accounts, counterparts, children, force_zero_txn)
AdjustForBAssertions ==
    \E call \in AdjustCalls, force_zero_txn \in BOOLEAN :
      \E r \in {adjust_for_bassertions(J, call.accounts, call.counterparts,
                                       call.children, force_zero_txn)} :
           /\ Len(r.j.postings) <= 2 * MaxTxns
           /\ Becomes(r.j)
           /\ last' = Called("adjust_for_bassertions", r.err,
                              Len(r.j.postings) - Len(postings))
           /\ UNCHANGED <<txn_arg, txn_ret>>

AdjustInit ==
    /\ Init
    /\ enforce_1_n = FALSE

AdjustNext ==
    AdjAddAccounts \/ AdjAddTxn \/ AdjAddBAssertion \/ AdjustForBAssertions

SpecAdjust == AdjustInit /\ [][AdjustNext]_vars

(***************************************************************************)
(* The balance specification: transactions whose statement date may differ *)
(* from their date are added one at a time on the chart A, E, A:C; balance *)
(* and flow are read in every state.                                       *)
(***************************************************************************)
\* the posting list of amount m on x, on the statement of date s, against E
PairStmt(txnid, date, x, m, s) ==
    << Posting(txnid, date, x, m, s),
       Posting(txnid, date, <<"E">>, 0 - m, NoDate) >>

BalPostingLists ==
    { PairStmt(1, d, x, m, s) :
        d \in Dates, x \in JPostingRefs, m \in {1, 2}, s \in {NoDate} \cup Dates }

\* j.add_txns(Txn(ps))
BalAddTxn ==
    \E ps \in BalPostingLists :
      \E r \in {MakeAndAddTxns(J, <<ps>>, TRUE)} :
           /\ Len(r.j.postings) <= 2 * MaxTxns
           /\ Becomes(r.j)
           /\ last' = Called(r.op, r.err, Len(r.j.postings) - Len(postings))
           /\ UNCHANGED <<txn_arg, txn_ret>>

BalanceInit ==
    /\ Init
    /\ enforce_1_n = FALSE

BalanceNext == AdjAddAccounts \/ BalAddTxn

SpecBalance == BalanceInit /\ [][BalanceNext]_vars

(***************************************************************************)
(* The assertion-check specification: transactions on a statement of their *)
(* own or another date and assertions on A and E are added one at a time;  *)
(* failed_bassertions is read in every state.                              *)
(***************************************************************************)
FailedPostingLists ==
    { PairStmt(1, d, x, 1, s) :
        d \in Dates, x \in JPostingRefs, s \in {NoDate} \cup Dates }

FailedBAssertions ==
    { BAssertion(d, <<"A">>, 1) : d \in Dates }
      \cup { BAssertion(d, <<"E">>, 0 - 1) : d \in Dates }

\* j.add_txns(Txn(ps))
FailedAddTxn ==
    \E ps \in FailedPostingLists :
      \E r \in {MakeAndAddTxns(J, <<ps>>, TRUE)} :
           /\ Len(r.j.postings) <= 2 * MaxTxns
           /\ Becomes(r.j)
           /\ last' = Called(r.op, r.err, Len(r.j.postings) - Len(postings))
           /\ UNCHANGED <<txn_arg, txn_ret>>

\* j.add_bassertions(b)
FailedAddBAssertion ==
    \E b \in FailedBAssertions :
      \E r \in {add_bassertions(J, <<b>>)} :
           /\ Len(r.j.bassertions) <= MaxBAssertions
           /\ Becomes(r.j)
           /\ last' = Called("add_bassertions", r.err,
                              Len(r.j.bassertions) - Len(bassertions))
           /\ UNCHANGED <<txn_arg, txn_ret>>

FailedInit ==
    /\ Init
    /\ enforce_1_n = FALSE

FailedNext == AdjAddAccounts \/ FailedAddTxn \/ FailedAddBAssertion

SpecFailed == FailedInit /\ [][FailedNext]_vars

(***************************************************************************)
(* The subset specification: postings of amounts -1, 0, 1 and 2 are added  *)
(* on A, so that the amounts on A run over every list of these amounts up  *)
(* to the bound; subset_sum and find_subset are read in every state.       *)
(***************************************************************************)
SubsetAmounts == {0 - 1, 0, 1, 2}

SubsetPostingLists ==
    { Pair(1, d, <<"A">>, m) : d \in Dates, m \in SubsetAmounts }

\* j.add_accounts([A, E])
SubsetAddAccounts ==
    \E r \in {add_accounts(J, <<Account(<<"A">>), Account(<<"E">>)>>)} :
         /\ Becomes(r.j)
         /\ last' = Called("add_accounts", r.err,
                            Len(r.j.accounts) - Len(accounts))
         /\ UNCHANGED <<txn_arg, txn_ret>>

\* j.add_txns(Txn(ps))
SubsetAddTxn ==
    \E ps \in SubsetPostingLists :
      \E r \in {MakeAndAddTxns(J, <<ps>>, TRUE)} :
           /\ Len(r.j.postings) <= 2 * MaxSubsetPostings
           /\ Becomes(r.j)
           /\ last' = Called(r.op, r.err, Len(r.j.postings) - Len(postings))
           /\ UNCHANGED <<txn_arg, txn_ret>>

SubsetInit ==
    /\ Init
    /\ enforce_1_n = FALSE

SubsetNext == SubsetAddAccounts \/ SubsetAddTxn

SpecSubset == SubsetInit /\ [][SubsetNext]_vars

(***************************************************************************)
(* The Txn specification: Txn(postings, enforce_1_n) on every posting list *)
(* of a small set of postings.                                             *)
(***************************************************************************)
TxnPostings ==
    { Posting(id, d, <<"A">>, m, NoDate) :
        id \in {1, 2}, d \in Dates, m \in {0 - 2, 0 - 1, 1, 2} }

TxnArgs ==
    [ postings : {<<>>} \cup SeqsUpTo(TxnPostings, MaxTxnPostings),
      enforce_1_n : BOOLEAN ]

TxnInit ==
    /\ accounts = <<>>
    /\ full_qname_dict = EmptyDict
    /\ short_qname_dict = EmptyDict
    /\ postings = <<>>
    /\ txns_dict = EmptyDict
    /\ next_txn_id = 1
    /\ bassertions = <<>>
    /\ bassertions_set = {}
    /\ auto_create_parents = FALSE
    /\ enforce_1_n = FALSE
    /\ targets = <<>>
    /\ last = Called("init", NoError, 0)
    /\ txn_arg \in TxnArgs
    /\ txn_ret = PendingTxnRet

\* Txn(postings, enforce_1_n) returns or raises
NewTxn ==
    /\ txn_ret = PendingTxnRet
    /\ txn_ret' = Txn(txn_arg.postings, txn_arg.enforce_1_n)
    /\ UNCHANGED <<accounts, full_qname_dict, short_qname_dict, postings,
                   txns_dict, next_txn_id, bassertions, bassertions_set,
                   auto_create_parents, enforce_1_n, targets, last, txn_arg>>

TxnNext == NewTxn

SpecTxn == TxnInit /\ [][TxnNext]_vars

\* Txn(...) on postings of which some were built with amount=None
PlugPostings ==
    { Posting(1, 1, <<"A">>, m, NoDate) : m \in {NoAmount, 0 - 1, 1, 2} }

PlugArgs ==
    [ postings : SeqsUpTo(PlugPostings, MaxTxnPostings), enforce_1_n : BOOLEAN ]

PlugInit ==
    /\ accounts = <<>>
    /\ full_qname_dict = EmptyDict
    /\ short_qname_dict = EmptyDict
    /\ postings = <<>>
    /\ txns_dict = EmptyDict
    /\ next_txn_id = 1
    /\ bassertions = <<>>
    /\ bassertions_set = {}
    /\ auto_create_parents = FALSE
    /\ enforce_1_n = FALSE
    /\ targets = <<>>
    /\ last = Called("init", NoError, 0)
    /\ txn_arg \in PlugArgs
    /\ txn_ret = PendingTxnRet

SpecPlug == PlugInit /\ [][TxnNext]_vars

(***************************************************************************)
(* The budget specification: transactions are added with the ids the       *)
(* journal gives or with their own, balance assertions are adjusted for,   *)
(* and budget_txns takes ids for the transactions of the targets.          *)
(***************************************************************************)
\* budget_txns is not called once next_txn_id is beyond this
MaxBudgetId == 3

BudAccountBatches ==
    { <<Account(<<"E">>), Account(<<"A">>), Account(<<"A", "C">>)>> }

\* the posting lists of the budget specification, written with the txn ids
\* 1 and 3
BudPostingLists == { Pair(id, 1, <<"C">>, 1) : id \in {1, 3} }

\* batches of one and of two; with ignore_txnid the ids written are
\* overwritten and the batches written with the id 1 stand for all
BudTxnCalls ==
    LET batches == { <<ps>> : ps \in BudPostingLists }
                     \cup { <<ps, qs>> : ps \in BudPostingLists, qs \in BudPostingLists }
    IN { [batch |-> bt, ignore_txnid |-> FALSE] : bt \in batches }
         \cup { [batch |-> bt, ignore_txnid |-> TRUE] :
                  bt \in { b \in batches : \A i \in 1..Len(b) : b[i][1].txnid = 1 } }

\* a target that occurs once, and one that occurs daily
BudTargets ==
    { RPosting(2, <<"C">>, 1, 0, 0), RPosting(1, <<"C">>, 1, 1, 0) }

\* j.add_accounts(batch)
BudAddAccounts ==
    \E batch \in BudAccountBatches :
      \E r \in {add_accounts(J, batch)} :
           /\ Becomes(r.j)
           /\ last' = Called("add_accounts", r.err,
                              Len(r.j.accounts) - Len(accounts))
           /\ txn_arg' = NoTxnArg
           /\ UNCHANGED txn_ret

\* j.add_txns([Txn(ps) for ps in batch], ignore_txnid=...); txn_arg keeps
\* the arguments of the call
BudAddTxns ==
    \E call \in BudTxnCalls :
      \E r \in {MakeAndAddTxns(J, call.batch, call.ignore_txnid)} :
           /\ Len(r.j.postings) <= 2 * MaxTxns
           /\ Becomes(r.j)
           /\ last' = Called(r.op, r.err, Len(r.j.postings) - Len(postings))
           /\ txn_arg' = call
           /\ UNCHANGED txn_ret

\* j.add_bassertions(BAssertion(1, C, 1))
BudAddBAssertion ==
    \E r \in {add_bassertions(J, <<BAssertion(1, <<"C">>, 1)>>)} :
         /\ Len(r.j.bassertions) <= MaxBAssertions
         /\ Becomes(r.j)
         /\ last' = Called("add_bassertions", r.err,
                            Len(r.j.bassertions) - Len(bassertions))
         /\ txn_arg' = NoTxnArg
         /\ UNCHANGED txn_ret

\* j.adjust_for_bassertions([C], [E], [None], force_zero_txn)
BudAdjustForBAssertions ==
    \E force_zero_txn \in BOOLEAN :
      \E r \in {adjust_for_bassertions(J, << <<"C">> >>, << <<"E">> >>,
                                       <<None>>, force_zero_txn)} :
           /\ Len(r.j.postings) <= 2 * MaxTxns
           /\ Becomes(r.j)
           /\ last' = Called("adjust_for_bassertions", r.err,
                              Len(r.j.postings) - Len(postings))
           /\ txn_arg' = NoTxnArg
           /\ UNCHANGED txn_ret

\* j.add_targets([t])
BudAddTargets ==
    \E t \in BudTargets :
      \E r \in {add_targets(J, <<t>>)} :
           /\ Len(r.j.targets) <= MaxBatch
           /\ Becomes(r.j)
           /\ last' = Called("add_targets", r.err, Len(r.j.targets) - Len(targets))
           /\ txn_arg' = NoTxnArg
           /\ UNCHANGED txn_ret

\* j.budget_txns(start_date, end_date, E); last counts the transactions
\* returned
BudgetTxns ==
    \E start_date \in Dates, end_date \in Dates :
      \E r \in {budget_txns(J, start_date, end_date, <<"E">>)} :
           /\ next_txn_id <= MaxBudgetId
           /\ Becomes(r.j)
           /\ last' = Called("budget_txns", r.err, Len(r.txns))
           /\ txn_arg' = NoTxnArg
           /\ UNCHANGED txn_ret

BudgetInit ==
    /\ Init
    /\ enforce_1_n = FALSE

BudgetNext ==
    \/ BudAddAccounts
    \/ BudAddTxns
    \/ BudAddBAssertion
    \/ BudAdjustForBAssertions
    \/ BudAddTargets
    \/ BudgetTxns

SpecBudget == BudgetInit /\ [][BudgetNext]_vars

(***************************************************************************)
(* The simplify specification: Txn(postings, enforce_1_n) on postings of   *)
(* A and E whose statement date is their date or a later one, then         *)
(* simplify() on the transaction made.                                     *)
(***************************************************************************)
SimplifyPostings ==
    { Posting(1, 1, x, m, sd) :
        x \in { <<"A">>, <<"E">> }, m \in {0 - 1, 0, 1, 2}, sd \in {NoDate, 2} }

\* the lists of up to n postings, each with enforce_1_n or without
SimplifyArgs(n) ==
    [ postings : SeqsUpTo(SimplifyPostings, n), enforce_1_n : BOOLEAN ]

SimplifyInit ==
    /\ accounts = <<>>
    /\ full_qname_dict = EmptyDict
    /\ short_qname_dict = EmptyDict
    /\ postings = <<>>
    /\ txns_dict = EmptyDict
    /\ next_txn_id = 1
    /\ bassertions = <<>>
    /\ bassertions_set = {}
    /\ auto_create_parents = FALSE
    /\ enforce_1_n = FALSE
    /\ targets = <<>>
    /\ last = Called("init", NoError, 0)
    /\ txn_arg \in SimplifyArgs(MaxTxnPostings)
    /\ txn_ret = PendingTxnRet

\* t = Txn(postings, enforce_1_n)
SimplifyNewTxn ==
    /\ txn_ret = PendingTxnRet
    /\ txn_ret' = Txn(txn_arg.postings, txn_arg.enforce_1_n)
    /\ last' = Called("Txn", txn_ret'.err, 0)
    /\ UNCHANGED <<accounts, full_qname_dict, short_qname_dict, postings,
                   txns_dict, next_txn_id, bassertions, bassertions_set,
                   auto_create_parents, enforce_1_n, targets, txn_arg>>

\* t.simplify(); last counts the postings of what it returned
Simplify ==
    /\ last.op = "Txn"
    /\ txn_ret.err = NoError
    /\ \E r \in {simplify(txn_ret.txn)} :
          /\ txn_ret' = r
          /\ last' = Called("simplify", r.err,
                             IF DOMAIN r.txn = {} THEN 0 ELSE Len(r.txn.postings))
    /\ UNCHANGED <<accounts, full_qname_dict, short_qname_dict, postings,
                   txns_dict, next_txn_id, bassertions, bassertions_set,
                   auto_create_parents, enforce_1_n, targets, txn_arg>>

SimplifyNext == SimplifyNewTxn \/ Simplify

SpecSimplify == SimplifyInit /\ [][SimplifyNext]_vars

(***************************************************************************)
(* The frame specification: postings and assertions are written with the   *)
(* short name C and with full names while the chart grows: C is first the  *)
(* short name of A:C, then ambiguous (A:C:C), then a full name of its own. *)
(***************************************************************************)
FrameAccountBatches ==
    { <<Account(<<"A">>), Account(<<"E">>)>>,
      <<Account(<<"A", "C">>)>>,
      <<Account(<<"A", "C", "C">>)>>,
      <<Account(<<"C">>)>>,
      <<Account(<<"E", "S">>), Account(<<"X", "Y">>)>> }

FramePostingLists == { Pair(1, 1, x, 1) : x \in { <<"A">>, <<"C">> } }

FrameBAssertions == { BAssertion(1, x, 1) : x \in { <<"A">>, <<"C">> } }

\* j.add_accounts(batch)
FrameAddAccounts ==
    \E batch \in FrameAccountBatches :
      \E r \in {add_accounts(J, batch)} :
           /\ Becomes(r.j)
           /\ last' = Called("add_accounts", r.err,
                              Len(r.j.accounts) - Len(accounts))
           /\ UNCHANGED <<txn_arg, txn_ret>>

\* j.add_txns(Txn(ps))
FrameAddTxn ==
    \E ps \in FramePostingLists :
      \E r \in {MakeAndAddTxns(J, <<ps>>, TRUE)} :
           /\ Len(r.j.postings) <= 2 * MaxTxns
           /\ Becomes(r.j)
           /\ last' = Called(r.op, r.err, Len(r.j.postings) - Len(postings))
           /\ UNCHANGED <<txn_arg, txn_ret>>

\* j.add_bassertions(b)
FrameAddBAssertion ==
    \E b \in FrameBAssertions :
      \E r \in {add_bassertions(J, <<b>>)} :
           /\ Len(r.j.bassertions) <= MaxBAssertions
           /\ Becomes(r.j)
           /\ last' = Called("add_bassertions", r.err,
                              Len(r.j.bassertions) - Len(bassertions))
           /\ UNCHANGED <<txn_arg, txn_ret>>

FrameInit ==
    /\ Init
    /\ enforce_1_n = FALSE

FrameNext == FrameAddAccounts \/ FrameAddTxn \/ FrameAddBAssertion

SpecFrame == FrameInit /\ [][FrameNext]_vars

(***************************************************************************)
(* The sums specification: subset_sum runs on a list of amounts, one pass  *)
(* of its loop at a time.  The amounts are powers of two, whose subsets    *)
(* have pairwise distinct sums.                                            *)
(***************************************************************************)
\* longest list of amounts handed to subset_sum
MaxAmounts == 5

PowerAmounts == {1, 2, 4, 8, 16}

\* a target that two amounts make, and one that no subset makes
SumTargets == {3, 0 - 1}

\* the lists of up to n amounts, each with a target
SumArgs(n) ==
    [ amounts : {<<>>} \cup SeqsUpTo(PowerAmounts, n), target : SumTargets ]

\* subset_sum has been entered: sum_dict = {} and the loop is at position 0
SumsInit ==
    /\ accounts = <<>>
    /\ full_qname_dict = EmptyDict
    /\ short_qname_dict = EmptyDict
    /\ postings = <<>>
    /\ txns_dict = EmptyDict
    /\ next_txn_id = 1
    /\ bassertions = <<>>
    /\ bassertions_set = {}
    /\ auto_create_parents = FALSE
    /\ enforce_1_n = FALSE
    /\ targets = <<>>
    /\ last = Called("init", NoError, 0)
    /\ txn_arg \in SumArgs(MaxAmounts)
    /\ txn_ret = [returned |-> FALSE, ret |-> <<>>, sum_dict |-> <<>>, i |-> 0]

\* one pass of the loop of subset_sum
SubsetSumPass ==
    /\ ~txn_ret.returned
    /\ txn_ret.i < Len(txn_arg.amounts)
    /\ \E r \in {subset_sum_pass(txn_arg.amounts, txn_ret.i, txn_ret.sum_dict,
                                 txn_arg.target)} :
          txn_ret' = [returned |-> r.returned, ret |-> r.ret,
                      sum_dict |-> r.sum_dict, i |-> txn_ret.i + 1]
    /\ UNCHANGED <<accounts, full_qname_dict, short_qname_dict, postings,
                   txns_dict, next_txn_id, bassertions, bassertions_set,
                   auto_create_parents, enforce_1_n, targets, last, txn_arg>>

\* the loop is over: return []
SubsetSumReturn ==
    /\ ~txn_ret.returned
    /\ txn_ret.i = Len(txn_arg.amounts)
    /\ txn_ret' = [txn_ret EXCEPT !.returned = TRUE, !.ret = <<>>]
    /\ UNCHANGED <<accounts, full_qname_dict, short_qname_dict, postings,
                   txns_dict, next_txn_id, bassertions, bassertions_set,
                   auto_create_parents, enforce_1_n, targets, last, txn_arg>>

SumsNext == SubsetSumPass \/ SubsetSumReturn

SpecSums == SumsInit /\ [][SumsNext]_vars

(***************************************************************************)
(* Vocabulary of the claims, stated on the account list alone              *)
(***************************************************************************)
\* the full qualified names of the registered accounts
Registered == {accounts[i].qname : i \in 1..Len(accounts)}

\* the registered names of a journal record
RegisteredIn(j) == {j.accounts[i].qname : i \in 1..Len(j.accounts)}

\* n is the list of the last Len(n) segments of q, and shorter than q
IsProperSuffixOf(n, q) ==
    /\ Len(n) < Len(q)
    /\ \A i \in 1..Len(n) : n[i] = q[Len(q) - Len(n) + i]

\* the names q minus its last k segments, k >= 1
Ancestors(q) == {SubSeq(q, 1, k) : k \in 1..(Len(q) - 1)}

\* the place of name q in the account list of j (0 when absent)
PlaceIn(j, q) ==
    LET at == {i \in 1..Len(j.accounts) : j.accounts[i].qname = q}
    IN IF at = {} THEN 0 ELSE CHOOSE i \in at : TRUE

(***************************************************************************)
(* C1: whatever add_txns and adjust_for_bassertions calls were made,       *)
(* returning or raising, the amounts of the postings of every transaction  *)
(* held by the journal sum to zero.                                        *)
(***************************************************************************)
C1_TxnsBalance ==
    /\ \A id \in DOMAIN txns_dict : SumAmounts(txns_dict[id].postings) = 0
    /\ \A id \in {postings[i].txnid : i \in 1..Len(postings)} :
          SumAmounts(SelectSeq(postings, LAMBDA p : p.txnid = id)) = 0

\* the journal holds a transaction added by add_txns and one made by
\* adjust_for_bassertions, which has just returned
C1_Witness ==
    /\ last.op = "adjust_for_bassertions"
    /\ last.err = NoError
    /\ last.n = 2
    /\ Cardinality(DOMAIN txns_dict) = 2
    /\ \E id \in DOMAIN txns_dict : txns_dict[id].postings[1].amount # 0

(***************************************************************************)
(* C2: Txn(postings) raises when the list is empty, has a single posting,  *)
(* holds postings of different txn ids or of different dates, or has       *)
(* amounts that do not sum to zero; it succeeds for every list of at least *)
(* two postings of one txn id and one date that sum to zero.               *)
(***************************************************************************)
C2_TxnConstruction ==
    (txn_ret # PendingTxnRet /\ txn_ret # NoTxnRet /\ ~txn_arg.enforce_1_n) =>
        LET ps == txn_arg.postings
            raised == txn_ret.err # NoError
            one_id == \A i, k \in 1..Len(ps) : ps[i].txnid = ps[k].txnid
            one_date == \A i, k \in 1..Len(ps) : ps[i].date = ps[k].date
        IN /\ Len(ps) = 0 => raised
           /\ Len(ps) = 1 => raised
           /\ ~one_id => raised
           /\ ~one_date => raised
           /\ SumAmounts(ps) # 0 => raised
           /\ (Len(ps) >= 2 /\ one_id /\ one_date /\ SumAmounts(ps) = 0)
                 => (~raised /\ txn_ret.txn.postings = ps)

\* a Txn of three postings was built: 1 + 1 - 2 on one id and one date
C2_Witness ==
    /\ txn_ret.err = NoError
    /\ ~txn_arg.enforce_1_n
    /\ Len(txn_arg.postings) = 3
    /\ txn_ret.txn.postings = txn_arg.postings

(***************************************************************************)
(* C3: account(n) returns the account named n when n is a registered full  *)
(* name, even if n is also a suffix of other names; otherwise the only     *)
(* registered account that has n as a proper suffix, an 'ambiguous' error  *)
(* when there are several, a 'does not exist' error when there is none.    *)
(***************************************************************************)
C3_AccountResolution ==
    \A n \in QueryNames :
        LET r == account(J, n)
            cands == {q \in Registered : IsProperSuffixOf(n, q)}
        IN IF n \in Registered
           THEN r.err = NoError /\ r.acc = Account(n)
           ELSE IF Cardinality(cands) = 1
           THEN r.err = NoError /\ r.acc.qname \in cands
           ELSE IF Cardinality(cands) > 1
           THEN r.err = "ambiguous"
           ELSE r.err = "does not exist"

\* C:F is a full name and a suffix of A:C:F, F is ambiguous, S:F is unique
C3_Witness ==
    /\ last.op = "add_accounts"
    /\ {<<"C", "F">>, <<"A", "C", "F">>, <<"A", "S", "F">>} \subseteq Registered
    /\ account(J, <<"C", "F">>).acc = Account(<<"C", "F">>)
    /\ account(J, <<"F">>).err = "ambiguous"
    /\ account(J, <<"S", "F">>).acc = Account(<<"A", "S", "F">>)
    /\ account(J, <<"X">>).err = "does not exist"

(***************************************************************************)
(* C4: for every registered account a and every minimum length m >= 1,     *)
(* the name short_qname(a.qname, m) returns resolves to a, as a's full     *)
(* name does.                                                              *)
(***************************************************************************)
C4_ShortNameResolves ==
    \A q \in Registered : \A m \in 1..MaxMinLength :
        LET s == short_qname(J, q, m)
        IN /\ s.err = NoError
           /\ account(J, s.qname).err = NoError
           /\ account(J, s.qname).acc = account(J, q).acc
           /\ account(J, q).acc = Account(q)

\* F is ambiguous and C:F a full name, so A:C:F has no short name, while
\* A:S:F is shortened to S:F
C4_Witness ==
    /\ last.op = "add_accounts"
    /\ {<<"C", "F">>, <<"A", "C", "F">>, <<"A", "S", "F">>} \subseteq Registered
    /\ short_qname(J, <<"A", "C", "F">>, 1).qname = <<"A", "C", "F">>
    /\ short_qname(J, <<"A", "S", "F">>, 1).qname = <<"S", "F">>
    /\ short_qname(J, <<"A", "S">>, 1).qname = <<"S">>

(***************************************************************************)
(* C5: the registered full names are pairwise distinct and the parent of   *)
(* every registered account of depth > 1 is registered; add_accounts       *)
(* raises for a name already registered and, with auto_create_parents off, *)
(* for a name whose parent is not registered; with auto_create_parents on  *)
(* it registers every missing ancestor before the account.                 *)
(***************************************************************************)
\* the names registered when add_accounts reaches batch[i], had it not raised
\* before: those of the journal, the earlier names of the batch and, with
\* auto_create_parents on, their ancestors
RegisteredBefore(batch, i) ==
    Registered
      \cup {batch[k].qname : k \in 1..(i - 1)}
      \cup (IF auto_create_parents
            THEN UNION {Ancestors(batch[k].qname) : k \in 1..(i - 1)}
            ELSE {})

\* batch[i] is a name add_accounts must refuse
Refused(batch, i) ==
    \/ batch[i].qname \in RegisteredBefore(batch, i)
    \/ /\ ~auto_create_parents
       /\ Len(batch[i].qname) > 1
       /\ Parent(batch[i].qname) \notin RegisteredBefore(batch, i)

C5_ChartInvariant ==
    /\ \A i, k \in 1..Len(accounts) :
          accounts[i].qname = accounts[k].qname => i = k
    /\ \A q \in Registered : Len(q) > 1 => Parent(q) \in Registered
    /\ \A batch \in ChartBatches :
          LET r == add_accounts(J, batch)
          IN /\ (r.err # NoError) <=> (\E i \in 1..Len(batch) : Refused(batch, i))
             /\ r.err = NoError =>
                  \A i \in 1..Len(batch) :
                      /\ PlaceIn(r.j, batch[i].qname) > 0
                      /\ \A p \in Ancestors(batch[i].qname) :
                            /\ PlaceIn(r.j, p) > 0
                            /\ PlaceIn(r.j, p) < PlaceIn(r.j, batch[i].qname)

\* a call with auto_create_parents on registered more accounts than it was
\* given: the missing ancestors A and A:C of A:C:F came with it
C5_Witness ==
    /\ last.op = "add_accounts"
    /\ last.err = NoError
    /\ auto_create_parents
    /\ last.n > MaxBatch
    /\ <<"A", "C", "F">> \in Registered

(***************************************************************************)
(* C6: under any interleaving of add_accounts and add_txns, every posting  *)
(* stored in the journal is on a leaf account: no registered account is a  *)
(* strict descendant of the posting's account.                             *)
(***************************************************************************)
C6_PostingsOnLeaves ==
    \A i \in 1..Len(postings) :
        ~\E q \in Registered :
            /\ Len(q) > Len(postings[i].acc_qname)
            /\ SubSeq(q, 1, Len(postings[i].acc_qname)) = postings[i].acc_qname

(***************************************************************************)
(* C7: when add_txns raises for a batch, the id-to-transaction map, the    *)
(* posting list and next_txn_id are what they were before the call,        *)
(* whatever the position of the offending transaction in the batch.        *)
(***************************************************************************)
C7_AddTxnsAtomic ==
    [][(last'.op = "add_txns" /\ last'.err # NoError)
          => /\ txns_dict' = txns_dict
             /\ postings' = postings
             /\ next_txn_id' = next_txn_id]_vars

\* add_txns has just raised on a journal that holds transactions: A, which
\* has postings, is no longer a leaf
C7_Witness ==
    /\ last.op = "add_txns"
    /\ last.err = "not a leaf account"
    /\ postings # <<>>
    /\ next_txn_id > 1

(***************************************************************************)
(* C8: when add_accounts raises on some account of a batch, no account of  *)
(* that batch is registered: the full-name map, the suffix map and the     *)
(* account list are what they were before the call.                        *)
(***************************************************************************)
C8_AddAccountsAtomic ==
    [][(last'.op = "add_accounts" /\ last'.err # NoError)
          => /\ accounts' = accounts
             /\ full_qname_dict' = full_qname_dict
             /\ short_qname_dict' = short_qname_dict]_vars

(***************************************************************************)
(* C9: when add_bassertions raises for a batch, the assertion list and the *)
(* (date, full account name) key index are unchanged, so that in every     *)
(* reachable state the key index is the set of the keys of the stored      *)
(* assertions.                                                             *)
(***************************************************************************)
C9_KeyIndexMatches ==
    bassertions_set =
        {<<bassertions[i].date, bassertions[i].acc_qname>> :
            i \in 1..Len(bassertions)}

(***************************************************************************)
(* C10: after any add_txns calls, with ignore_txnid true or false and      *)
(* several transactions per batch, no two committed transactions share a   *)
(* txn id and the posting list holds exactly the postings of the           *)
(* transactions of the id-to-transaction map.                              *)
(***************************************************************************)
C10_TxnIdsUnique ==
    /\ \A i \in 1..Len(postings) : postings[i].txnid \in DOMAIN txns_dict
    /\ \A id \in DOMAIN txns_dict :
          SelectSeq(postings, LAMBDA p : p.txnid = id) = txns_dict[id].postings

(***************************************************************************)
(* C11: add_bassertions accepts assertions on leaf and on branch accounts  *)
(* and raises when an assertion's (date, resolved full account name) is    *)
(* that of a stored assertion or of an earlier assertion of the batch,     *)
(* also when one names the account by a short name and the other by its    *)
(* full name; no two stored assertions have the same date and the same     *)
(* full account name.                                                      *)
(***************************************************************************)
\* the (date, full account name) of assertion b, whose account resolves
KeyOf(b) == <<b.date, account(J, b.acc_qname).acc.qname>>

\* the keys of the stored assertions
StoredKeys ==
    {<<bassertions[i].date, bassertions[i].acc_qname>> : i \in 1..Len(bassertions)}

C11_NoDuplicateAssertions ==
    /\ \A i, k \in 1..Len(bassertions) :
          (/\ bassertions[i].date = bassertions[k].date
           /\ bassertions[i].acc_qname = bassertions[k].acc_qname) => i = k
    /\ \A i \in 1..Len(bassertions) : bassertions[i].acc_qname \in Registered
    /\ \A batch \in JBAssertionBatches :
          LET r == add_bassertions(J, batch)
              resolves(i) == account(J, batch[i].acc_qname).err = NoError
              repeated(i) ==
                  /\ resolves(i)
                  /\ \/ KeyOf(batch[i]) \in StoredKeys
                     \/ \E k \in 1..(i - 1) :
                           resolves(k) /\ KeyOf(batch[k]) = KeyOf(batch[i])
          IN /\ (\E i \in 1..Len(batch) : repeated(i)) => r.err # NoError
             /\ (/\ \A i \in 1..Len(batch) :
                       resolves(i) /\ ~repeated(i)
                         /\ KeyOf(batch[i]) \notin bassertions_set)
                   => /\ r.err = NoError
                      /\ Len(r.j.bassertions) = Len(bassertions) + Len(batch)
                      /\ \A i \in 1..Len(batch) :
                            r.j.bassertions[Len(bassertions) + i] =
                               [batch[i] EXCEPT !.acc_qname = KeyOf(batch[i])[2]]

\* an assertion on the branch A and one on the leaf A:C are stored, and a
\* call has just been refused for a repeated key
C11_Witness ==
    /\ last.op = "add_bassertions"
    /\ last.err = "bassertion already exists"
    /\ <<"A", "C">> \in Registered
    /\ \E i, k \in 1..Len(bassertions) :
          /\ bassertions[i].acc_qname = <<"A">>
          /\ bassertions[k].acc_qname = <<"A", "C">>
          /\ bassertions[i].date = bassertions[k].date
    /\ add_bassertions(J, <<BAssertion(bassertions[1].date, <<"C">>, 1)>>).err
          = "bassertion already exists"

(***************************************************************************)
(* C12: for every registered account A and date d, balance(d, A) is the    *)
(* sum of the amounts of the stored postings dated <= d (statement date    *)
(* with use_stmt_date, posting date otherwise) on A or a strict descendant *)
(* of A; it is the sum of those directly on A plus the sum of              *)
(* balance(d, C) over the registered immediate children C of A.            *)
(***************************************************************************)
\* the dates asked about: the days before, of and after the dated postings
QueryDates == {0} \cup Dates \cup {3}

RECURSIVE SumOver(_, _)
\* the sum of f over the finite set S
SumOver(S, f) ==
    IF S = {} THEN 0
    ELSE LET x == CHOOSE x \in S : TRUE
         IN f[x] + SumOver(S \ {x}, f)

\* the places in the posting list of the postings dated <= d
DatedUpTo(d, use_stmt_date) ==
    {i \in 1..Len(postings) :
        (IF use_stmt_date THEN postings[i].stmt_date ELSE postings[i].date) <= d}

\* q is n or n extended by further segments
AtOrUnder(q, n) == Len(q) >= Len(n) /\ SubSeq(q, 1, Len(n)) = n

\* the sum balance is specified to return on the postings ps: the amounts
\* of those dated <= d on a or under it
SpecifiedBalance(ps, d, a, use_stmt_date) ==
    SumOver({i \in 1..Len(ps) :
                /\ (IF use_stmt_date THEN ps[i].stmt_date ELSE ps[i].date) <= d
                /\ AtOrUnder(ps[i].acc_qname, a)},
            [i \in 1..Len(ps) |-> ps[i].amount])

C12_BalanceIsSum ==
    \A a \in Registered : \A d \in QueryDates : \A u \in BOOLEAN :
        LET amounts == [i \in 1..Len(postings) |-> postings[i].amount]
            under == {i \in DatedUpTo(d, u) : AtOrUnder(postings[i].acc_qname, a)}
            direct == {i \in DatedUpTo(d, u) : postings[i].acc_qname = a}
            children == {c \in Registered : Len(c) = Len(a) + 1 /\ AtOrUnder(c, a)}
        IN /\ balance(J, d, a, u).err = NoError
           /\ \A c \in children : balance(J, d, c, u).err = NoError
           /\ balance(J, d, a, u).value = SumOver(under, amounts)
           /\ balance(J, d, a, u).value =
                 SumOver(direct, amounts)
                   + SumOver(children, [c \in children |-> balance(J, d, c, u).value])

(***************************************************************************)
(* C13: for every account A and dates start <= end, flow(start, end, A) is *)
(* the sum of the amounts of the stored postings on A or its descendants   *)
(* dated from start to end, both included, which is balance(end, A) minus  *)
(* balance(start - 1 day, A); for start > end flow raises.                 *)
(***************************************************************************)
C13_FlowIsSum ==
    \A a \in Registered : \A start \in QueryDates : \A end \in QueryDates :
        LET f == flow(J, start, end, a, FALSE)
            amounts == [i \in 1..Len(postings) |-> postings[i].amount]
            within == {i \in 1..Len(postings) :
                          /\ start <= postings[i].date
                          /\ postings[i].date <= end
                          /\ AtOrUnder(postings[i].acc_qname, a)}
        IN IF start > end THEN f.err # NoError
           ELSE /\ f.err = NoError
                /\ f.amount = SumOver(within, amounts)
                /\ balance(J, end, a, FALSE).err = NoError
                /\ balance(J, start - 1, a, FALSE).err = NoError
                /\ f.amount = balance(J, end, a, FALSE).value
                                 - balance(J, start - 1, a, FALSE).value

(***************************************************************************)
(* C14: failed_bassertions, a sweep over the sorted postings and           *)
(* assertions, returns exactly the stored assertions b (those with         *)
(* b.date <= today when future assertions are filtered) for which          *)
(* balance(b.date, b.account, use_stmt_date=True) differs from b.balance.  *)
(***************************************************************************)
C14_SweepAgreesWithBalance ==
    \A filter_future_date \in BOOLEAN : \A today \in QueryDates :
        LET r == failed_bassertions(J, filter_future_date, today)
            checked ==
                {i \in 1..Len(bassertions) :
                    filter_future_date => bassertions[i].date <= today}
            actual(i) ==
                balance(J, bassertions[i].date, bassertions[i].acc_qname, TRUE)
            failing == {i \in checked : actual(i).value # bassertions[i].balance}
        IN /\ r.err = NoError
           /\ \A i \in checked : actual(i).err = NoError
           /\ {r.ls[k] : k \in 1..Len(r.ls)} = {bassertions[i] : i \in failing}
           /\ Len(r.ls) = Cardinality(failing)

(***************************************************************************)
(* C15: for every list of amounts and every target, a non-empty result of  *)
(* subset_sum is a list of pairwise distinct valid positions whose amounts *)
(* sum to the target; when no non-empty subset of the amounts sums to the  *)
(* target the result is empty, and find_subset returns None.               *)
(***************************************************************************)
\* the targets searched for
SubsetTargets == (0 - 3)..5

\* the amounts of the postings on A, in journal order
AmountsOnA ==
    LET onA == SelectSeq(postings, LAMBDA p : p.acc_qname = <<"A">>)
    IN [i \in 1..Len(onA) |-> onA[i].amount]

\* some non-empty set of the places S has amounts summing to target
SomeSubsetSums(S, amounts, target) ==
    \E T \in SUBSET S : T # {} /\ SumOver(T, amounts) = target

C15_SubsetSum ==
    \A target \in SubsetTargets :
        LET amounts == AmountsOnA
            r == subset_sum(amounts, target)
            all == [i \in 1..Len(postings) |-> postings[i].amount]
        IN /\ r # <<>> =>
                /\ \A k \in 1..Len(r) : r[k] \in 0..(Len(amounts) - 1)
                /\ \A k, n \in 1..Len(r) : r[k] = r[n] => k = n
                /\ SumOver({r[k] + 1 : k \in 1..Len(r)}, amounts) = target
           /\ SomeSubsetSums(1..Len(amounts), amounts, target) <=> r # <<>>
           /\ Registered # {} =>
                \A start \in Dates : \A end \in Dates :
                    LET f == find_subset(J, target, <<"A">>, start, end, FALSE)
                        window == {i \in 1..Len(postings) :
                                      /\ postings[i].acc_qname = <<"A">>
                                      /\ start <= postings[i].date
                                      /\ postings[i].date <= end}
                    IN /\ ~SomeSubsetSums(window, all, target) <=> f = None
                       /\ f # None =>
                            /\ \A k \in 1..Len(f) : \E i \in window : f[k] = postings[i]
                            /\ Len(f) <= Cardinality(window)
                            /\ SumAmounts(f) = target

\* four postings on A: the amounts 2, -1, 1, 2 hold no single 3, and the
\* search returns two of them; 5 takes three of them, nothing sums to -2
C15_Witness ==
    /\ last.op = "add_txns"
    /\ AmountsOnA = <<2, 0 - 1, 1, 2>>
    /\ subset_sum(AmountsOnA, 3) = <<0, 2>>
    /\ subset_sum(AmountsOnA, 0) = <<1, 2>>
    /\ subset_sum(AmountsOnA, 5) = <<0, 2, 3>>
    /\ subset_sum(AmountsOnA, 0 - 2) = <<>>
    /\ find_subset(J, 0 - 2, <<"A">>, 1, 2, FALSE) = None

(***************************************************************************)
(* C16: for every choice of accounts, counterparts and children that       *)
(* adjust_for_bassertions accepts, once the call has returned              *)
(* failed_bassertions() holds no assertion on any of the listed accounts.  *)
(***************************************************************************)
C16_AdjustConverges ==
    \A call \in AdjustCalls : \A force_zero_txn \in BOOLEAN :
        LET r == adjust_for_bassertions(J, call.accounts, call.counterparts,
                                        call.children, force_zero_txn)
            listed == {account(J, call.accounts[i]).acc.qname :
                          i \in 1..Len(call.accounts)}
        IN r.err = NoError =>
              \A today \in QueryDates :
                  LET failed == failed_bassertions(r.j, TRUE, today)
                  IN /\ failed.err = NoError
                     /\ \A k \in 1..Len(failed.ls) :
                           failed.ls[k].acc_qname \notin listed

(***************************************************************************)
(* C17: adjust_for_bassertions takes the assertions of each listed account *)
(* in date order and, for each one whose asserted balance differs from the *)
(* statement-date balance at that moment, commits one two-posting          *)
(* transaction dated at the assertion date, with diff = asserted - actual  *)
(* on the account (or the given child) and -diff on the counterpart; an    *)
(* assertion with diff = 0 gives no transaction unless force_zero_txn is   *)
(* set; the transactions get consecutive txn ids from the journal's        *)
(* next_txn_id before the call.                                            *)
(***************************************************************************)
\* the stored assertions on the account named a, earliest first
OnAccountByDate(a) ==
    LET on == {i \in 1..Len(bassertions) : bassertions[i].acc_qname = a}
        f == CHOOSE f \in [1..Cardinality(on) -> on] :
                \A k, n \in 1..Cardinality(on) :
                    k < n => bassertions[f[k]].date < bassertions[f[n]].date
    IN [k \in 1..Cardinality(on) |-> bassertions[f[k]]]

RECURSIVE WorkFrom(_, _)
\* the assertions the call has to handle from its i-th account on, each with
\* the account to adjust and the counterpart
WorkFrom(call, i) ==
    IF i > Len(call.accounts) THEN <<>>
    ELSE LET a == account(J, call.accounts[i]).acc.qname
             on == IF call.children[i] = None THEN a
                   ELSE account(J, call.children[i]).acc.qname
             counterpart == account(J, call.counterparts[i]).acc.qname
             bs == OnAccountByDate(a)
         IN [k \in 1..Len(bs) |-> [b |-> bs[k], on |-> on, counterpart |-> counterpart]]
              \o WorkFrom(call, i + 1)

RECURSIVE PostingsOf(_, _)
\* the postings of the first n transactions of txns
PostingsOf(txns, n) ==
    IF n = 0 THEN <<>> ELSE PostingsOf(txns, n - 1) \o txns[n].postings

\* r is what the call had to do: the transactions r.txns answer, in order,
\* the assertions of work picked by made
Adjusted(work, made, r, force_zero_txn) ==
    LET before(i) == Cardinality({k \in made : k < i})
        diff(i) ==
            work[i].b.balance
              - SpecifiedBalance(postings \o PostingsOf(r.txns, before(i)),
                                 work[i].b.date, work[i].b.acc_qname, TRUE)
    IN /\ Cardinality(made) = Len(r.txns)
       /\ \A i \in 1..Len(work) :
             IF i \in made
             THEN /\ diff(i) # 0 \/ force_zero_txn
                  /\ r.txns[before(i) + 1].postings =
                       << [txnid |-> next_txn_id + before(i), date |-> work[i].b.date,
                           acc_qname |-> work[i].on, amount |-> diff(i),
                           stmt_date |-> work[i].b.date],
                          [txnid |-> next_txn_id + before(i), date |-> work[i].b.date,
                           acc_qname |-> work[i].counterpart, amount |-> 0 - diff(i),
                           stmt_date |-> work[i].b.date] >>
             ELSE diff(i) = 0 /\ ~force_zero_txn

\* no other registered name lies under q
IsLeaf(q) == \A other \in Registered : AtOrUnder(other, q) => other = q

\* the names of the call resolve, the accounts posted to are leaves and
\* each child given is under its account: the arguments
\* adjust_for_bassertions is specified to accept
Accepted(call) ==
    \A i \in 1..Len(call.accounts) :
        /\ full_qname(J, call.accounts[i]).err = NoError
        /\ full_qname(J, call.counterparts[i]).err = NoError
        /\ IsLeaf(full_qname(J, call.counterparts[i]).qname)
        /\ IF call.children[i] = None
           THEN IsLeaf(full_qname(J, call.accounts[i]).qname)
           ELSE /\ full_qname(J, call.children[i]).err = NoError
                /\ IsLeaf(full_qname(J, call.children[i]).qname)
                /\ AtOrUnder(full_qname(J, call.children[i]).qname,
                             full_qname(J, call.accounts[i]).qname)

C17_AdjustTxns ==
    \A call \in AdjustCalls : \A force_zero_txn \in BOOLEAN :
        LET r == adjust_for_bassertions(J, call.accounts, call.counterparts,
                                        call.children, force_zero_txn)
            work == WorkFrom(call, 1)
        IN Accepted(call) =>
              /\ r.err = NoError
              /\ \E made \in SUBSET (1..Len(work)) :
                    Adjusted(work, made, r, force_zero_txn)
              /\ r.j.postings = postings \o PostingsOf(r.txns, Len(r.txns))
              /\ r.j.next_txn_id = next_txn_id + Len(r.txns)
              /\ DOMAIN r.j.txns_dict =
                    DOMAIN txns_dict \cup (next_txn_id..(next_txn_id + Len(r.txns) - 1))
              /\ \A k \in 1..Len(r.txns) :
                    r.j.txns_dict[next_txn_id + k - 1] = r.txns[k]
              /\ \A id \in DOMAIN txns_dict : r.j.txns_dict[id] = txns_dict[id]

(***************************************************************************)
(* Bank import: ImportService.get_new_txns of bank_import/import_service.py *)
(* (BankCsv.get_new_txns of bank_import/bank_import.py is the same code)   *)
(* on the Journal of journal/journal.py.  Here an account of the journal   *)
(* is its name and its number, a posting or an assertion holds the name of *)
(* its account, a statement description is the list of its characters, and *)
(* the journal is its accounts, its list txns (held in the variable        *)
(* txns_dict, with get_postings() of it in the variable postings) and its  *)
(* bassertions.                                                            *)
(* An optional Decimal or dict is the empty tuple (None) or the 1-tuple of *)
(* its value.                                                              *)
(***************************************************************************)
\* Posting of txn/posting.py (the comment plays no part)
StmtPosting(txn_id, date, acc, amount, stmt_date, stmt_desc) ==
    [txn_id |-> txn_id, date |-> date, account |-> acc, amount |-> amount,
     stmt_date |-> IF stmt_date = NoDate THEN date ELSE stmt_date,
     stmt_desc |-> stmt_desc]

\* Posting.dedup_key
dedup_key(p) == <<p.date, p.account, p.amount, p.stmt_desc>>

\* p.model_copy(update={"txn_id": txn_id}): a new posting, p is left as it is
model_copy_txn_id(p, txn_id) == [p EXCEPT !.txn_id = txn_id]

RECURSIVE get_postings(_)
\* Journal.get_postings: the postings of the transactions, in order
get_postings(txns) ==
    IF txns = <<>> THEN <<>>
    ELSE Head(txns).postings \o get_postings(Tail(txns))

\* Account of account/account.py: the fields Journal reads
JournalAccount(name, number) == [name |-> name, number |-> number]

\* Journal.validate_journal: account names, account numbers, transaction
\* ids and assertion keys (date, account name) are not repeated
validate_journal(accs, txns, bs) ==
    IF \E i, k \in 1..Len(accs) : i < k /\ accs[i].name = accs[k].name
    THEN "Duplicate account name"
    ELSE IF \E i, k \in 1..Len(accs) : i < k /\ accs[i].number = accs[k].number
    THEN "Duplicate account number"
    ELSE IF \E i, k \in 1..Len(txns) :
               i < k /\ txns[i].postings[1].txn_id = txns[k].postings[1].txn_id
    THEN "Duplicate transaction ID"
    ELSE IF \E i, k \in 1..Len(bs) :
               i < k /\ bs[i].date = bs[k].date /\ bs[i].account = bs[k].account
    THEN "Duplicate assertion key"
    ELSE NoError

\* Journal(accounts=accs, txns=txns, bassertions=bs)
Journal(accs, txns, bs) ==
    [err |-> validate_journal(accs, txns, bs),
     accounts |-> accs, txns |-> txns, bassertions |-> bs]

RECURSIVE count_keys(_, _, _)
\* the loop of Journal.known_keys from the i-th posting on
count_keys(ps, i, known) ==
    IF i > Len(ps) THEN known
    ELSE LET k == dedup_key(ps[i])
             c == IF k \in DOMAIN known THEN known[k] ELSE 0
         IN count_keys(ps, i + 1, DictSet(known, k, c + 1))

\* every key is counted once however many postings carry it (mutant)
known_keys_once(ps) ==
    [k \in {dedup_key(ps[i]) : i \in 1..Len(ps)} |-> 1]

\* Journal.known_keys
known_keys(ps) == count_keys(ps, 1, EmptyDict)

RECURSIVE latest_from(_, _, _, _)
\* the loop of Journal.get_last_balance from the i-th assertion on; lst is
\* the position of the assertion held in last, 0 for None
latest_from(bs, i, acc, lst) ==
    IF i > Len(bs) THEN lst
    ELSE IF bs[i].account = acc /\ (lst = 0 \/ bs[i].date > bs[lst].date)
         THEN latest_from(bs, i + 1, acc, i)
         ELSE latest_from(bs, i + 1, acc, lst)

\* Journal.get_last_balance: the position in bs of the assertion it
\* returns, 0 for None
get_last_balance(bs, acc) == latest_from(bs, 1, acc, 0)

\* Journal.next_txn_id of journal/journal.py
Journal_next_txn_id(ps) ==
    IF ps = <<>> THEN 1
    ELSE (CHOOSE m \in {ps[i].txn_id : i \in 1..Len(ps)} :
             \A i \in 1..Len(ps) : ps[i].txn_id <= m) + 1

\* del known[k]
DictDel(d, k) == [x \in (DOMAIN d) \ {k} |-> d[x]]

RECURSIVE remove_known_any_count(_, _, _, _, _, _)
\* a known key drops every posting that carries it, whatever its count
\* (mutant)
remove_known_any_count(bank_ps, i, bs, lst, known, new_ps) ==
    IF i > Len(bank_ps) THEN new_ps
    ELSE LET p == bank_ps[i]
         IN IF (lst # 0 /\ p.date <= bs[lst].date) \/ dedup_key(p) \in DOMAIN known
            THEN remove_known_any_count(bank_ps, i + 1, bs, lst, known, new_ps)
            ELSE remove_known_any_count(bank_ps, i + 1, bs, lst, known,
                                        Append(new_ps, p))

RECURSIVE remove_known(_, _, _, _, _, _)
\* the loop "for p in bank_ps" of get_new_txns from the i-th posting on
remove_known(bank_ps, i, bs, lst, known, new_ps) ==
    IF i > Len(bank_ps) THEN new_ps
    ELSE LET p == bank_ps[i]
             k == dedup_key(p)
         IN IF lst # 0 /\ p.date <= bs[lst].date
            THEN remove_known(bank_ps, i + 1, bs, lst, known, new_ps)
            ELSE IF k \in DOMAIN known
            THEN remove_known(bank_ps, i + 1, bs, lst,
                              IF known[k] = 1 THEN DictDel(known, k)
                              ELSE DictSet(known, k, known[k] - 1),
                              new_ps)
            ELSE remove_known(bank_ps, i + 1, bs, lst, known, Append(new_ps, p))

\* get_new_txns, "Remove postings that are already in the database":
\* new_ps for the non-empty bank_ps
new_postings(ps, bs, bank_ps) ==
    remove_known(bank_ps, 1, bs, get_last_balance(bs, bank_ps[1].account),
                 known_keys(ps), <<>>)

\* str.startswith
startswith(str, prefix) ==
    /\ Len(prefix) <= Len(str)
    /\ SubSeq(str, 1, Len(prefix)) = prefix

\* a field of a Rule that is not set
NoName == ""

\* Rule of bank_import/classifier.py
Rule(account_name, description_startswith, description_equals, amount_equals, amount_greater_than, amount_less_than, second_account_name, discard, second_txn) ==
    [account_name |-> account_name,
     description_startswith |-> description_startswith,
     description_equals |-> description_equals,
     amount_equals |-> amount_equals,
     amount_greater_than |-> amount_greater_than,
     amount_less_than |-> amount_less_than,
     second_account_name |-> second_account_name,
     discard |-> discard,
     second_txn |-> second_txn]

\* Rule.match: the transactions, <<>> for None
Rule_match(rule, posting, accs) ==
    IF \/ rule.description_startswith # <<>>
            /\ ~startswith(posting.stmt_desc, rule.description_startswith)
       \/ rule.description_equals # <<>>
            /\ \A i \in 1..Len(rule.description_equals) :
                  rule.description_equals[i] # posting.stmt_desc
       \/ rule.amount_equals # None /\ posting.amount # rule.amount_equals[1]
       \/ rule.amount_greater_than # None
            /\ posting.amount <= rule.amount_greater_than[1]
       \/ rule.amount_less_than # None
            /\ posting.amount >= rule.amount_less_than[1]
       \/ rule.account_name # NoName /\ posting.account # rule.account_name
       \/ rule.discard
    THEN [err |-> NoError, txns |-> <<>>]
    ELSE IF rule.second_account_name = NoName
    THEN [err |-> "ValueError: second account name must be provided", txns |-> <<>>]
    ELSE IF rule.second_account_name \notin accs
    THEN [err |-> "KeyError", txns |-> <<>>]
    ELSE LET p2 == [posting EXCEPT !.account = rule.second_account_name,
                                   !.amount = 0 - posting.amount]
             first == [postings |-> <<posting, p2>>]
         IN IF rule.second_txn = None
            THEN [err |-> NoError, txns |-> <<first>>]
            ELSE LET second == rule.second_txn[1]
                     txn_id == posting.txn_id + 1
                 IN IF {second.account1, second.account2} \subseteq accs
                    THEN [err |-> NoError,
                          txns |-> << first,
                                      [postings |->
                                         << [posting EXCEPT !.txn_id = txn_id,
                                                            !.account = second.account1,
                                                            !.amount = second.amount1],
                                            [posting EXCEPT !.txn_id = txn_id,
                                                            !.account = second.account2,
                                                            !.amount = 0 - second.amount1] >>] >>]
                    ELSE [err |-> "KeyError", txns |-> <<>>]

RECURSIVE classify_rules(_, _, _, _)
\* the loop of RuleClassifier.classify from the i-th rule on
classify_rules(rules, i, posting, accs) ==
    IF i > Len(rules) THEN [err |-> "ValueError: no rule matched", txns |-> <<>>]
    ELSE LET r == Rule_match(rules[i], posting, accs)
         IN IF r.err # NoError \/ r.txns # <<>> THEN r
            ELSE classify_rules(rules, i + 1, posting, accs)

\* RuleClassifier over the rules of its file
RuleClassifier(rules) == [rules |-> rules]

\* RuleClassifier.classify(posting=posting): the transactions of the
\* first rule that returns some, or the error raised
classify(classifier, posting, accs) ==
    classify_rules(classifier.rules, 1, posting, accs)

RECURSIVE classify_all(_, _, _, _, _)
\* the loop "for p in new_ps" of get_new_txns from the i-th posting on
classify_all(new_ps, i, classifier, accs, new_txns) ==
    IF i > Len(new_ps) THEN [err |-> NoError, txns |-> new_txns]
    ELSE LET r == classify(classifier, new_ps[i], accs)
         IN IF r.err # NoError THEN [err |-> r.err, txns |-> new_txns]
            ELSE classify_all(new_ps, i + 1, classifier, accs, new_txns \o r.txns)

\* only the first posting of a transaction gets the new id (mutant)
renumber_first_posting(new_txns, next_txnid) ==
    [k \in 1..Len(new_txns) |->
        [postings |-> [new_txns[k].postings EXCEPT ![1].txn_id = next_txnid + k - 1]]]

\* get_new_txns, "Renumber the transactions": each transaction is built
\* anew from copies of its postings
renumber(new_txns, next_txnid) ==
    [k \in 1..Len(new_txns) |->
        [postings |->
            [n \in 1..Len(new_txns[k].postings) |->
                model_copy_txn_id(new_txns[k].postings[n], next_txnid + k - 1)]]]

\* ImportService.get_new_txns(journal, bank_ps, classifier), the journal
\* given by its postings ps, its assertions bs and its account names accs:
\* the transactions returned or the error raised, and the list bank_ps as
\* the call leaves it (no statement assigns to the list or to a posting of
\* it: the postings kept are read, and renumbered on copies)
get_new_txns(ps, bs, accs, bank_ps, classifier) ==
    IF bank_ps = <<>> THEN [err |-> NoError, txns |-> <<>>, bank_ps |-> bank_ps]
    ELSE LET r == classify_all(new_postings(ps, bs, bank_ps), 1, classifier,
                               accs, <<>>)
         IN IF r.err # NoError
            THEN [err |-> r.err, txns |-> <<>>, bank_ps |-> bank_ps]
            ELSE [err |-> NoError,
                  txns |-> renumber(r.txns, Journal_next_txn_id(ps)),
                  bank_ps |-> bank_ps]

\* ImportService.import_new_txns on one import of one file holding bank_ps:
\* the transactions of get_new_txns are handed to journal.add_txn one by
\* one.  Journal defines no add_txn, so the first one raises
\* AttributeError; the journal is the same after the call in every case,
\* and a list is returned only when get_new_txns returned none
import_new_txns(ps, bs, accs, bank_ps, classifier) ==
    LET r == get_new_txns(ps, bs, accs, bank_ps, classifier)
    IN IF r.err # NoError THEN [err |-> r.err, txns |-> <<>>]
       ELSE IF r.txns # <<>> THEN [err |-> "AttributeError", txns |-> <<>>]
       ELSE [err |-> NoError, txns |-> <<>>]

(***************************************************************************)
(* Txn of txn/txn.py: a transaction is the record of its postings          *)
(* (StmtPosting records); Txn.split_into_pairs.                            *)
(***************************************************************************)
\* Txn(postings=ps): the field needs two postings at least, and validate_txn
\* one txn id, one date and a zero sum
validate_txn(ps) ==
    IF Len(ps) < 2 THEN [err |-> "min_length", txn |-> None]
    ELSE IF Cardinality({ps[i].txn_id : i \in 1..Len(ps)}) # 1
    THEN [err |-> "txn_ids", txn |-> None]
    ELSE IF Cardinality({ps[i].date : i \in 1..Len(ps)}) # 1
    THEN [err |-> "dates", txn |-> None]
    ELSE IF SumAmounts(ps) # 0 THEN [err |-> "balance", txn |-> None]
    ELSE [err |-> NoError, txn |-> [postings |-> ps]]

\* the first id of the new pairs taken as 1 (mutant)
first_pair_id_one(txns) == 1

\* split_into_pairs: next_id = max((p.txn_id for p in txns), default=0) + 1
first_pair_id(txns) ==
    IF txns = <<>> THEN 1
    ELSE LET ids == {txns[i].postings[1].txn_id : i \in 1..Len(txns)}
         IN (CHOOSE m \in ids : \A x \in ids : x <= m) + 1

\* the pairs made of single and each of multiples, numbered from next_id
split_pairs(single, multiples, next_id) ==
    [k \in 1..Len(multiples) |->
       validate_txn(<< [single EXCEPT !.amount = 0 - multiples[k].amount,
                                      !.txn_id = next_id + k - 1],
                       [multiples[k] EXCEPT !.txn_id = next_id + k - 1] >>)]

RECURSIVE split_txns(_, _, _, _)
\* the loop of split_into_pairs from the n-th transaction on: the list
\* pairs is returned when the loop ends, and nothing when it raises
split_txns(txns, n, next_id, pairs) ==
    IF n > Len(txns) THEN [err |-> NoError, txns |-> pairs]
    ELSE
    LET txn == txns[n]
    IN IF Len(txn.postings) = 2
       THEN split_txns(txns, n + 1, next_id, Append(pairs, txn))
       ELSE
       LET nb_pos == SelectSeq(txn.postings, LAMBDA p : p.amount > 0)
           nb_neg == SelectSeq(txn.postings, LAMBDA p : p.amount < 0)
       IN IF Len(nb_pos) # 1 /\ Len(nb_neg) # 1
          THEN [err |-> "ValueError", txns |-> <<>>]
          ELSE
          LET single == IF Len(nb_pos) = 1 THEN nb_pos[1] ELSE nb_neg[1]
              multiples == IF Len(nb_pos) = 1 THEN nb_neg ELSE nb_pos
              made == split_pairs(single, multiples, next_id)
              bad == {k \in 1..Len(made) : made[k].err # NoError}
          IN IF bad # {}
             THEN [err |-> made[CHOOSE k \in bad : \A l \in bad : k <= l].err,
                   txns |-> <<>>]
             ELSE split_txns(txns, n + 1, next_id + Len(multiples),
                             pairs \o [k \in 1..Len(made) |-> made[k].txn])

\* Txn.split_into_pairs(txns)
split_into_pairs(txns) == split_txns(txns, 1, first_pair_id(txns), <<>>)

(***************************************************************************)
(* The import specification: a journal as its constructor builds it, then *)
(* calls of get_new_txns and of import_new_txns on the postings of a bank  *)
(* file, and the construction of the journal that holds, after its         *)
(* transactions, the ones get_new_txns returned.  The variable txns_dict   *)
(* is the list Journal.txns, postings is get_postings() of it and          *)
(* next_txn_id is next_txn_id() of it; txn_ret is what the last call       *)
(* returned or raised.                                                     *)
(***************************************************************************)
ImportAccounts ==
    << JournalAccount("Bank", 1000), JournalAccount("Food", 5000),
       JournalAccount("Fees", 5001) >>

\* the account lists handed to the constructor: in the second one Food and
\* Fees have one number, and the constructor raises
ImportAccountLists ==
    { ImportAccounts,
      << JournalAccount("Bank", 1000), JournalAccount("Food", 5000),
         JournalAccount("Fees", 5000) >> }

\* acc_dict = {a.name: a for a in journal.accounts}: its keys
AccountNames(accs) == {accs[i].name : i \in 1..Len(accs)}

\* the lines of a bank file: date, amount, statement date, description
BankLines ==
    { [date |-> 1, amount |-> 1, stmt_date |-> 1, stmt_desc |-> <<"a">>],
      [date |-> 2, amount |-> 1, stmt_date |-> 2, stmt_desc |-> <<"b">>],
      [date |-> 2, amount |-> 2, stmt_date |-> 2, stmt_desc |-> <<"b">>] }

\* BankCsv.get_bank_postings: the postings of the lines, numbered from 1
get_bank_postings(lines) ==
    [i \in 1..Len(lines) |->
        StmtPosting(i, lines[i].date, "Bank", lines[i].amount,
                    lines[i].stmt_date, lines[i].stmt_desc)]

BankPostingLists ==
    { get_bank_postings(lines) : lines \in SeqsUpTo(BankLines, MaxCandidates) }

\* a rule that sets nothing but what happens on a match
Always(second_account_name, second_txn) ==
    Rule(NoName, <<>>, <<>>, None, None, None, second_account_name, FALSE,
         second_txn)

RuleClassifiers ==
    { RuleClassifier(<< Always("Food", None) >>),
      RuleClassifier(<< Rule("Bank", <<>>, << <<"b">> >>, None, <<1>>, None,
                             "Food", FALSE,
                             << [account1 |-> "Bank", account2 |-> "Fees",
                                 amount1 |-> 1] >>),
                        Always("Food", None) >>),
      RuleClassifier(<< Rule(NoName, <<>>, <<>>, <<1>>, None, <<2>>, NoName,
                             TRUE, None),
                        Rule(NoName, <<"a">>, <<>>, None, None, None, "Food",
                             FALSE, None) >>) }

\* BAssertion of bassertion/bassertion.py
StmtBAssertion(date, acc, bal) == [date |-> date, account |-> acc, balance |-> bal]

\* the assertions of the journal as loaded (their keys differ)
ImportBAssertionLists ==
    { <<>>,
      << StmtBAssertion(1, "Bank", 0) >>,
      << StmtBAssertion(1, "Bank", 0), StmtBAssertion(0, "Bank", 0) >>,
      << StmtBAssertion(2, "Food", 0), StmtBAssertion(1, "Bank", 0) >> }

\* the transactions handed to the constructor: none, or one booked already
LoadedTxnLists ==
    { <<>>,
      << [postings |-> << StmtPosting(1, 1, "Bank", 1, 1, <<"a">>),
                          StmtPosting(1, 1, "Food", 0 - 1, 1, <<"a">>) >>] >> }

\* Journal(accounts=accs, txns=txns, bassertions=bs), when it does not raise
ImportInit ==
    \E accs \in ImportAccountLists, txns \in LoadedTxnLists,
       bs \in ImportBAssertionLists :
      \E j \in {Journal(accs, txns, bs)} :
        /\ j.err = NoError
        /\ accounts = j.accounts
        /\ full_qname_dict = EmptyDict
        /\ short_qname_dict = EmptyDict
        /\ postings = get_postings(j.txns)
        /\ txns_dict = j.txns
        /\ next_txn_id = Journal_next_txn_id(get_postings(j.txns))
        /\ bassertions = j.bassertions
        /\ bassertions_set = {}
        /\ auto_create_parents = FALSE
        /\ enforce_1_n = FALSE
        /\ targets = <<>>
        /\ last = Called("init", NoError, 0)
        /\ txn_arg = NoTxnArg
        /\ txn_ret = NoTxnRet

\* get_new_txns(journal, bank_ps, classifier) on the postings of one file:
\* the journal is read only
GetNewTxns ==
    \E bank_ps \in BankPostingLists, classifier \in RuleClassifiers :
      \E r \in {get_new_txns(postings, bassertions, AccountNames(accounts),
                             bank_ps, classifier)} :
           /\ txn_ret' = [err |-> r.err, txns |-> r.txns]
           /\ last' = Called("get_new_txns", r.err, Len(r.txns))
           /\ UNCHANGED <<accounts, full_qname_dict, short_qname_dict, postings,
                          txns_dict, next_txn_id, bassertions, bassertions_set,
                          auto_create_parents, enforce_1_n, targets, txn_arg>>

\* import_new_txns on one file, with the RuleClassifier it builds from the
\* rules of the configuration: nothing reaches the journal
ImportNewTxns ==
    \E bank_ps \in BankPostingLists, classifier \in RuleClassifiers :
      \E r \in {import_new_txns(postings, bassertions, AccountNames(accounts),
                                bank_ps, classifier)} :
           /\ txn_ret' = r
           /\ last' = Called("import_new_txns", r.err, Len(r.txns))
           /\ UNCHANGED <<accounts, full_qname_dict, short_qname_dict, postings,
                          txns_dict, next_txn_id, bassertions, bassertions_set,
                          auto_create_parents, enforce_1_n, targets, txn_arg>>

\* Journal(accounts=journal.accounts, txns=journal.txns + txns,
\* bassertions=journal.bassertions) with the transactions get_new_txns has
\* just returned: the journal is frozen, so the one that holds them is a
\* new one; when the validation raises, the journal stays the one it was
JournalWithTxns ==
    /\ last.op = "get_new_txns"
    /\ txn_ret.err = NoError
    /\ txn_ret.txns # <<>>
    /\ Len(txns_dict) + Len(txn_ret.txns) <= MaxTxns
    /\ \E j \in {Journal(accounts, txns_dict \o txn_ret.txns, bassertions)} :
          /\ txns_dict' = IF j.err = NoError THEN j.txns ELSE txns_dict
          /\ postings' = IF j.err = NoError THEN get_postings(j.txns) ELSE postings
          /\ next_txn_id' = IF j.err = NoError
                            THEN Journal_next_txn_id(get_postings(j.txns))
                            ELSE next_txn_id
          /\ last' = Called("Journal", j.err, Len(txn_ret.txns))
    /\ UNCHANGED <<accounts, full_qname_dict, short_qname_dict, bassertions,
                   bassertions_set, auto_create_parents, enforce_1_n, targets,
                   txn_arg, txn_ret>>

ImportNext == GetNewTxns \/ ImportNewTxns \/ JournalWithTxns

SpecImport == ImportInit /\ [][ImportNext]_vars

(***************************************************************************)
(* The pairs specification: split_into_pairs on a list of transactions:    *)
(* none, one transaction of two postings or more, or such a transaction    *)
(* next to a transaction of two postings, with another txn id (as the      *)
(* transactions of a Journal have) or with the same one.                   *)
(***************************************************************************)
\* most postings of a transaction handed to split_into_pairs
MaxPairPostings == 4

PairPostings ==
    { StmtPosting(1, 1, x, m, NoDate, "") :
        x \in {"Bank", "Food"}, m \in {0 - 2, 0 - 1, 0, 1, 2} }

\* the transactions Txn(postings=ps) of up to n postings that validate
PairTxns(n) ==
    { [postings |-> ps] :
        ps \in { qs \in SeqsUpTo(PairPostings, n) :
                   validate_txn(qs).err = NoError } }

\* txn with the txn id id
Renumbered(txn, id) ==
    [postings |-> [k \in 1..Len(txn.postings) |->
                     [txn.postings[k] EXCEPT !.txn_id = id]]]

\* the lists handed to split_into_pairs, of transactions of up to n
\* postings; next to a transaction with its own txn id, one of up to three
\* postings
PairArgs(n) ==
    LET two == [postings |-> << StmtPosting(1, 1, "Bank", 1, NoDate, ""),
                                StmtPosting(1, 1, "Food", 0 - 1, NoDate, "") >>]
    IN { <<>> }
         \cup { <<Renumbered(t, id)>> : t \in PairTxns(n), id \in {1, 2} }
         \cup { <<Renumbered(two, 3), Renumbered(t, 1)>> : t \in PairTxns(n) }
         \cup { <<Renumbered(t, 2), Renumbered(two, 1)>> : t \in PairTxns(n) }
         \cup { <<Renumbered(two, 1), Renumbered(t, 1)>> : t \in PairTxns(3) }

PairsInit ==
    /\ accounts = <<"Bank", "Food">>
    /\ full_qname_dict = EmptyDict
    /\ short_qname_dict = EmptyDict
    /\ postings = <<>>
    /\ txns_dict = EmptyDict
    /\ next_txn_id = 1
    /\ bassertions = <<>>
    /\ bassertions_set = {}
    /\ auto_create_parents = FALSE
    /\ enforce_1_n = FALSE
    /\ targets = <<>>
    /\ last = Called("init", NoError, 0)
    /\ txn_arg \in PairArgs(MaxPairPostings)
    /\ txn_ret = PendingTxnRet

\* Txn.split_into_pairs(txns): txn_ret is the list returned, or the error
\* raised and no list; last counts the transactions returned
SplitIntoPairs ==
    /\ txn_ret = PendingTxnRet
    /\ \E r \in {split_into_pairs(txn_arg)} :
          /\ txn_ret' = r
          /\ last' = Called("split_into_pairs", r.err, Len(r.txns))
    /\ UNCHANGED <<accounts, full_qname_dict, short_qname_dict, postings,
                   txns_dict, next_txn_id, bassertions, bassertions_set,
                   auto_create_parents, enforce_1_n, targets, txn_arg>>

PairsNext == SplitIntoPairs

SpecPairs == PairsInit /\ [][PairsNext]_vars

(***************************************************************************)
(* C18: the deduplication of a bank import counts: for each dedup key k    *)
(* (date, account name, amount, statement description) the number of       *)
(* candidates with key k that are kept is max(0, c_k - l_k), c_k the       *)
(* number of candidates with key k dated after the latest balance          *)
(* assertion of the account and l_k the number of journal postings with    *)
(* key k; candidates dated on or before that assertion are dropped without *)
(* using up a count; the kept candidates reach the classifier in their     *)
(* input order.                                                            *)
(***************************************************************************)
\* p is dated after every assertion stored on its account
AfterLatest(p) ==
    \A i \in 1..Len(bassertions) :
        bassertions[i].account = p.account => p.date > bassertions[i].date

\* the number of positions of S where ps carries the key k
KeyCount(ps, S, k) == Cardinality({i \in S : dedup_key(ps[i]) = k})

\* new_ps is bank_ps cut down to the positions of kept, in the same order
KeptInOrder(new_ps, bank_ps, kept) ==
    /\ Len(new_ps) = Cardinality(kept)
    /\ \A i \in kept : new_ps[Cardinality({k \in kept : k <= i})] = bank_ps[i]

C18_DedupCounts ==
    \A bank_ps \in BankPostingLists \ {<<>>} :
        LET new_ps == new_postings(postings, bassertions, bank_ps)
            after == {i \in 1..Len(bank_ps) : AfterLatest(bank_ps[i])}
            r == get_new_txns(postings, bassertions, AccountNames(accounts),
                              bank_ps, RuleClassifier(<< Always("Food", None) >>))
        IN /\ \E kept \in SUBSET after :
                 /\ KeptInOrder(new_ps, bank_ps, kept)
                 /\ \A i \in 1..Len(bank_ps) :
                       LET k == dedup_key(bank_ps[i])
                           c == KeyCount(bank_ps, after, k)
                           l == KeyCount(postings, 1..Len(postings), k)
                       IN KeyCount(bank_ps, kept, k) = IF c > l THEN c - l ELSE 0
           /\ Len(r.txns) = Len(new_ps)
           /\ \A n \in 1..Len(new_ps) :
                 [r.txns[n].postings[1] EXCEPT !.txn_id = new_ps[n].txn_id] = new_ps[n]

\* the journal holds one posting with the key of two candidates dated after
\* the assertion on Bank, and get_new_txns has returned one transaction:
\* of the two candidates the first is dropped and the second kept
C18_Witness ==
    /\ last = Called("get_new_txns", NoError, 1)
    /\ \E i \in 1..Len(bassertions) : bassertions[i].account = "Bank"
    /\ \E bank_ps \in BankPostingLists :
          /\ Len(bank_ps) = 2
          /\ dedup_key(bank_ps[1]) = dedup_key(bank_ps[2])
          /\ AfterLatest(bank_ps[1])
          /\ KeyCount(postings, 1..Len(postings), dedup_key(bank_ps[1])) = 1
          /\ new_postings(postings, bassertions, bank_ps) = << bank_ps[2] >>
          /\ txn_ret.txns =
                get_new_txns(postings, bassertions, AccountNames(accounts),
                             bank_ps, RuleClassifier(<< Always("Food", None) >>)).txns

(***************************************************************************)
(* C19: when the transactions an import returned are committed and nothing *)
(* else changes, importing the same candidates again with the same         *)
(* classifier returns no transaction.  The classifier is a RuleClassifier, *)
(* and the journal the transactions are committed to is the one built from *)
(* the transactions of the journal followed by the ones returned.          *)
(***************************************************************************)
\* the second of two imports of bank_ps returns nothing
SecondImportEmpty(bank_ps, classifier) ==
    LET r == get_new_txns(postings, bassertions, AccountNames(accounts),
                          bank_ps, classifier)
        j == Journal(accounts, txns_dict \o r.txns, bassertions)
        again == get_new_txns(get_postings(j.txns), j.bassertions,
                              AccountNames(j.accounts), bank_ps, classifier)
    IN r.err = NoError =>
          /\ j.err = NoError
          /\ again.err = NoError
          /\ again.txns = <<>>

C19_ImportIdempotent ==
    \A bank_ps \in BankPostingLists : \A classifier \in RuleClassifiers :
        SecondImportEmpty(bank_ps, classifier)

\* the journal has just been built from the transactions of the one before
\* and the transactions get_new_txns returned for some candidates, and
\* get_new_txns on the same candidates returns nothing
C19_Witness ==
    /\ last.op = "Journal" /\ last.err = NoError
    /\ txn_ret.txns # <<>>
    /\ Len(txns_dict) > Len(txn_ret.txns)
    /\ \E bank_ps \in BankPostingLists : \E classifier \in RuleClassifiers :
          LET before == SubSeq(txns_dict, 1, Len(txns_dict) - Len(txn_ret.txns))
              first == get_new_txns(get_postings(before), bassertions,
                                    AccountNames(accounts), bank_ps, classifier)
              again == get_new_txns(postings, bassertions,
                                    AccountNames(accounts), bank_ps, classifier)
          IN /\ first.err = NoError
             /\ first.txns = txn_ret.txns
             /\ txns_dict = before \o first.txns
             /\ again.err = NoError
             /\ again.txns = <<>>

(***************************************************************************)
(* C20: get_new_txns returns the k transactions of the classification with *)
(* the txn ids n, n+1, ..., n+k-1 in the order the kept postings were      *)
(* classified, n the journal's next_txn_id; every posting of a returned    *)
(* transaction carries that transaction's id, also in the second           *)
(* transaction of a rule; no returned id is the id of a transaction of the *)
(* journal; the candidate postings passed in are not modified.             *)
(***************************************************************************)
RECURSIVE ClassifiedFrom(_, _, _)
\* what the classifier answers for the postings of new_ps from the i-th on,
\* one after the other
ClassifiedFrom(new_ps, i, classifier) ==
    IF i > Len(new_ps) THEN <<>>
    ELSE classify(classifier, new_ps[i], AccountNames(accounts)).txns
           \o ClassifiedFrom(new_ps, i + 1, classifier)

\* the postings of t, all with the txn id id
WithId(t, id) ==
    [postings |-> [n \in 1..Len(t.postings) |-> [t.postings[n] EXCEPT !.txn_id = id]]]

C20_FreshSequentialIds ==
    \A bank_ps \in BankPostingLists : \A classifier \in RuleClassifiers :
        LET r == get_new_txns(postings, bassertions, AccountNames(accounts),
                              bank_ps, classifier)
            used == {txns_dict[i].postings[1].txn_id : i \in 1..Len(txns_dict)}
            n == IF \E id \in used : id > 0
                 THEN 1 + CHOOSE id \in used : \A other \in used : other <= id
                 ELSE 1
            classified == IF bank_ps = <<>> THEN <<>>
                          ELSE ClassifiedFrom(new_postings(postings, bassertions, bank_ps),
                                              1, classifier)
        IN /\ r.bank_ps = bank_ps
           /\ r.err = NoError =>
                 /\ n = next_txn_id
                 /\ Len(r.txns) = Len(classified)
                 /\ \A k \in 1..Len(r.txns) :
                       /\ r.txns[k] = WithId(classified[k], n + k - 1)
                       /\ n + k - 1 \notin used

\* get_new_txns on a journal that holds the transaction 1 has just
\* returned the two transactions of a rule with a second transaction,
\* numbered 2 and 3, of a candidate numbered 1 in its file
C20_Witness ==
    /\ last = Called("get_new_txns", NoError, 2)
    /\ Len(txns_dict) = 1
    /\ txns_dict[1].postings[1].txn_id = 1
    /\ next_txn_id = 2
    /\ \A n \in 1..2 : txn_ret.txns[1].postings[n].txn_id = 2
    /\ \A n \in 1..2 : txn_ret.txns[2].postings[n].txn_id = 3
    /\ txn_ret.txns[2].postings[2].account = "Fees"
    /\ \E bank_ps \in BankPostingLists :
          /\ Len(bank_ps) = 1
          /\ bank_ps[1].txn_id = 1
          /\ txn_ret.txns[1].postings[1] = [bank_ps[1] EXCEPT !.txn_id = 2]

(***************************************************************************)
(* C21: RuleClassifier.classify applies the first rule, in list order,     *)
(* whose predicates all match the posting: when that rule has discard set  *)
(* the posting yields no transaction and no later rule is consulted;       *)
(* otherwise classify returns the rule's balanced two-posting transaction  *)
(* against its counterpart account, followed by the second transaction     *)
(* when the rule defines one.                                              *)
(***************************************************************************)
\* every predicate the rule sets holds of the posting
PredicatesMatch(rule, posting) ==
    /\ rule.description_startswith = <<>>
         \/ startswith(posting.stmt_desc, rule.description_startswith)
    /\ rule.description_equals = <<>>
         \/ \E i \in 1..Len(rule.description_equals) :
               rule.description_equals[i] = posting.stmt_desc
    /\ rule.amount_equals = None \/ posting.amount = rule.amount_equals[1]
    /\ rule.amount_greater_than = None \/ posting.amount > rule.amount_greater_than[1]
    /\ rule.amount_less_than = None \/ posting.amount < rule.amount_less_than[1]
    /\ rule.account_name = NoName \/ posting.account = rule.account_name

\* the positions of the rules whose predicates match the posting
MatchingRules(classifier, posting) ==
    {i \in 1..Len(classifier.rules) : PredicatesMatch(classifier.rules[i], posting)}

\* the first of them
FirstMatch(classifier, posting) ==
    CHOOSE i \in MatchingRules(classifier, posting) :
        \A k \in MatchingRules(classifier, posting) : i <= k

\* the postings handed to a classifier
BankPostings ==
    {bank_ps[n] : bank_ps \in BankPostingLists \ {<<>>}, n \in {1}}
      \cup {bank_ps[2] : bank_ps \in {b \in BankPostingLists : Len(b) >= 2}}

C21_FirstMatchDecides ==
    \A classifier \in RuleClassifiers : \A posting \in BankPostings :
        MatchingRules(classifier, posting) # {} =>
            LET rule == classifier.rules[FirstMatch(classifier, posting)]
                r == classify(classifier, posting, AccountNames(accounts))
            IN IF rule.discard
               THEN r.err = NoError /\ r.txns = <<>>
               ELSE /\ r.err = NoError
                    /\ Len(r.txns) = IF rule.second_txn = None THEN 1 ELSE 2
                    /\ r.txns[1].postings =
                         << posting,
                            [posting EXCEPT !.account = rule.second_account_name,
                                            !.amount = 0 - posting.amount] >>
                    /\ rule.second_txn # None =>
                         /\ Len(r.txns[2].postings) = 2
                         /\ r.txns[2].postings[1].account = rule.second_txn[1].account1
                         /\ r.txns[2].postings[2].account = rule.second_txn[1].account2
                         /\ r.txns[2].postings[1].amount = rule.second_txn[1].amount1
                         /\ r.txns[2].postings[2].amount = 0 - rule.second_txn[1].amount1

(***************************************************************************)
(* C22: when no rule of the rule classifier matches a posting, classify    *)
(* does not fail: it returns a balanced two-posting transaction of the     *)
(* posting against the default account.                                    *)
(***************************************************************************)
C22_UnmatchedClassified ==
    \A classifier \in RuleClassifiers : \A posting \in BankPostings :
        MatchingRules(classifier, posting) = {} =>
            LET r == classify(classifier, posting, AccountNames(accounts))
            IN /\ r.err = NoError
               /\ Len(r.txns) = 1
               /\ Len(r.txns[1].postings) = 2
               /\ r.txns[1].postings[1] = posting
               /\ r.txns[1].postings[2].amount = 0 - posting.amount

(***************************************************************************)
(* C23: when exactly one posting of a transaction has a null amount, the   *)
(* construction succeeds and that posting's amount becomes the negation of *)
(* the sum of the other amounts; when two or more postings have a null     *)
(* amount, the construction fails.                                         *)
(***************************************************************************)
\* the positions of the postings handed over with a null amount
NullAmounts(ps) == {i \in 1..Len(ps) : ps[i].amount = NoAmount}

RECURSIVE SumKnown(_)
\* the sum of the amounts that are not null
SumKnown(ps) ==
    IF ps = <<>> THEN 0
    ELSE (IF Head(ps).amount = NoAmount THEN 0 ELSE Head(ps).amount)
           + SumKnown(Tail(ps))

C23_PlugAmount ==
    (txn_ret # PendingTxnRet /\ txn_ret # NoTxnRet /\ Len(txn_arg.postings) >= 2) =>
        LET ps == txn_arg.postings
        IN /\ Cardinality(NullAmounts(ps)) = 1 =>
                /\ txn_ret.err = NoError
                /\ txn_ret.txn.postings =
                     [i \in 1..Len(ps) |->
                        IF i \in NullAmounts(ps)
                        THEN [ps[i] EXCEPT !.amount = 0 - SumKnown(ps)]
                        ELSE ps[i]]
           /\ Cardinality(NullAmounts(ps)) >= 2 => txn_ret.err # NoError

(***************************************************************************)
(* C24: for every registered account of depth D and every minimum length   *)
(* m >= 1, short_qname returns the suffix of the account's full name with  *)
(* the smallest number of segments l, m <= l < D, that is not itself a     *)
(* registered full name and is a suffix of exactly one registered account; *)
(* when there is no such l (as when m >= D) it returns the full name.      *)
(***************************************************************************)
\* the lengths l, m <= l < Len(q), of the suffixes of q that name q alone
UniqueSuffixLengths(q, m) ==
    {l \in m..(Len(q) - 1) :
        /\ Suffix(q, l) \notin Registered
        /\ Cardinality({a \in Registered : IsProperSuffixOf(Suffix(q, l), a)}) = 1}

C24_ShortestUniqueSuffix ==
    \A q \in Registered : \A m \in 1..MaxMinLength :
        LET s == short_qname(J, q, m)
            ls == UniqueSuffixLengths(q, m)
        IN /\ s.err = NoError
           /\ s.qname = IF ls = {} THEN q
                        ELSE Suffix(q, CHOOSE l \in ls : \A k \in ls : l <= k)

\* A:C:F is the only account ending in F: its short name is F, from two
\* segments on C:F, and from three segments on the full name
C24_Witness ==
    /\ last.op = "add_accounts"
    /\ <<"A", "C", "F">> \in Registered
    /\ short_qname(J, <<"A", "C", "F">>, 1).qname = <<"F">>
    /\ short_qname(J, <<"A", "C", "F">>, 2).qname = <<"C", "F">>
    /\ short_qname(J, <<"A", "C", "F">>, 3).qname = <<"A", "C", "F">>

(***************************************************************************)
(* C25: a successful add_txns with ignore_txnid=True gives the k           *)
(* transactions of the batch the ids n .. n+k-1 in list order, n the       *)
(* next_txn_id before the call, and leaves next_txn_id at n+k; and in      *)
(* every state reached through add_txns (either mode),                     *)
(* adjust_for_bassertions and budget_txns, next_txn_id is strictly greater *)
(* than the id of every committed transaction.                             *)
(***************************************************************************)
\* the transaction number i of the batch as committed with the id n + i - 1
CommittedAs(ps, id) ==
    [k \in 1..Len(ps) |->
       [ps[k] EXCEPT !.txnid = id,
                     !.acc_qname = full_qname(J, ps[k].acc_qname).qname]]

RECURSIVE BatchCommitted(_, _)
\* the postings the batch adds when its transactions take the ids from id on
BatchCommitted(batch, id) ==
    IF batch = <<>> THEN <<>>
    ELSE CommittedAs(Head(batch), id) \o BatchCommitted(Tail(batch), id + 1)

\* the ids of the committed transactions are below next_txn_id
IdsBelowNext ==
    /\ \A id \in DOMAIN txns_dict : id < next_txn_id
    /\ \A i \in 1..Len(postings) : postings[i].txnid < next_txn_id

SequentialIds ==
    (/\ last'.op = "add_txns"
     /\ last'.err = NoError
     /\ txn_arg'.ignore_txnid)
    => LET n == next_txn_id
           k == Len(txn_arg'.batch)
       IN /\ next_txn_id' = n + k
          /\ postings' = postings \o BatchCommitted(txn_arg'.batch, n)
          /\ DOMAIN txns_dict' = DOMAIN txns_dict \cup n..(n + k - 1)
          /\ \A i \in 1..k :
                txns_dict'[n + i - 1].postings
                    = CommittedAs(txn_arg'.batch[i], n + i - 1)

C25_NextTxnIdAboveAll == [][SequentialIds /\ IdsBelowNext']_vars

\* a batch of two took the ids 2 and 3 after budget_txns or a transaction
\* with its own id had moved next_txn_id
C25_Witness ==
    /\ last.op = "add_txns"
    /\ last.err = NoError
    /\ txn_arg.ignore_txnid
    /\ Len(txn_arg.batch) = 2
    /\ next_txn_id = 4
    /\ DOMAIN txns_dict = {2, 3}
    /\ targets # <<>>

(***************************************************************************)
(* C26: subset_sum stops at the first position i at which some subset of   *)
(* amounts[0..i] that contains i sums to the target: the result is         *)
(* non-empty whenever a non-empty subset sums to the target, the largest   *)
(* position of the result is the smallest possible over all subsets that   *)
(* sum to the target, and when amounts[i] is the target at that position   *)
(* the result is exactly [i].                                              *)
(***************************************************************************)
\* the positions (from 0) at which a subset of amounts[0..i] holding i sums
\* to target
StopPositions(amounts, target) ==
    { i \in 0..(Len(amounts) - 1) :
        \E T \in SUBSET (1..(i + 1)) :
            (i + 1) \in T /\ SumOver(T, amounts) = target }

\* the largest position of a non-empty result
LargestOf(r) == CHOOSE x \in {r[k] : k \in 1..Len(r)} : \A k \in 1..Len(r) : r[k] <= x

C26_StopsAtFirst ==
    \A target \in SubsetTargets :
        LET amounts == AmountsOnA
            r == subset_sum(amounts, target)
            stops == StopPositions(amounts, target)
        IN IF stops = {} THEN r = <<>>
           ELSE LET i == CHOOSE x \in stops : \A y \in stops : x <= y
                IN /\ r # <<>>
                   /\ LargestOf(r) = i
                   /\ amounts[i + 1] = target => r = <<i>>

\* 1, 0, 2, 1 on A: 2 is found alone at position 2 although 1 + 1 and
\* 0 + 2 sum to it as well, and 3 stops at position 2 with 1 + 2
C26_Witness ==
    /\ last.op = "add_txns"
    /\ AmountsOnA = <<1, 0, 2, 1>>
    /\ subset_sum(AmountsOnA, 2) = <<2>>
    /\ subset_sum(AmountsOnA, 3) = <<0, 2>>
    /\ subset_sum(AmountsOnA, 1) = <<0>>
    /\ subset_sum(AmountsOnA, 4) = <<0, 2, 3>>

(***************************************************************************)
(* C27: while subset_sum processes n amounts, its map from partial sum to  *)
(* index list never holds more than n^2 entries.                           *)
(***************************************************************************)
C27_QuadraticMap ==
    Len(txn_ret.sum_dict) <= Len(txn_arg.amounts) * Len(txn_arg.amounts)

\* C27 as it holds: after i amounts the map holds at most 2^i - 1 entries,
\* one per distinct sum of a non-empty subset of these amounts, each entry
\* listing positions whose amounts make its key; and what the passes return
\* is what subset_sum returns.
C27_ExponentialMap ==
    LET d == txn_ret.sum_dict
        amounts == txn_arg.amounts
    IN /\ Len(d) <= 2 ^ txn_ret.i - 1
       /\ \A n, m \in 1..Len(d) : d[n].k = d[m].k => n = m
       /\ ~txn_ret.returned =>
            \A n \in 1..Len(d) :
                /\ \A x \in 1..Len(d[n].v) : d[n].v[x] \in 0..(txn_ret.i - 1)
                /\ SumOver({d[n].v[x] + 1 : x \in 1..Len(d[n].v)}, amounts) = d[n].k
       /\ txn_ret.returned => txn_ret.ret = subset_sum(amounts, txn_arg.target)

\* five amounts have gone through the loop and the map holds 31 sums
C27_Witness ==
    /\ Len(txn_arg.amounts) = 5
    /\ txn_ret.i = 5
    /\ Len(txn_ret.sum_dict) = 31

(***************************************************************************)
(* C28: for every valid transaction t, t.simplify() never raises; it       *)
(* returns None exactly when the amounts of every (account, statement      *)
(* date) group sum to zero, and otherwise a valid balanced transaction     *)
(* with the txn id and the date of t, holding exactly one posting per      *)
(* group whose sum is not zero, with that sum as its amount, so that the   *)
(* net amount of every account is the same as in t; simplifying the        *)
(* result again changes nothing.                                           *)
(***************************************************************************)
\* the places of ps in the group g = (account, statement date)
GroupPlaces(ps, g) ==
    {i \in 1..Len(ps) : ps[i].acc_qname = g[1] /\ ps[i].stmt_date = g[2]}

\* the sum of the amounts of ps at the places S
AmountOver(ps, S) == SumOver(S, [i \in 1..Len(ps) |-> ps[i].amount])

\* the net amount of the account acc in ps
NetAmount(ps, acc) == AmountOver(ps, {i \in 1..Len(ps) : ps[i].acc_qname = acc})

C28_Simplify ==
    last.op = "simplify" =>
        LET t == Txn(txn_arg.postings, txn_arg.enforce_1_n).txn
            ps == t.postings
            groups == {<<ps[i].acc_qname, ps[i].stmt_date>> : i \in 1..Len(ps)}
            nonzero == {g \in groups : AmountOver(ps, GroupPlaces(ps, g)) # 0}
        IN /\ txn_ret.err = NoError
           /\ DOMAIN txn_ret.txn = {} <=> nonzero = {}
           /\ nonzero # {} =>
                LET qs == txn_ret.txn.postings
                IN /\ Txn(qs, FALSE).err = NoError
                   /\ TxnId(txn_ret.txn) = TxnId(t)
                   /\ TxnDate(txn_ret.txn) = TxnDate(t)
                   /\ Len(qs) = Cardinality(nonzero)
                   /\ \A g \in nonzero :
                        \E i \in 1..Len(qs) :
                            /\ GroupPlaces(qs, g) = {i}
                            /\ qs[i].amount = AmountOver(ps, GroupPlaces(ps, g))
                   /\ \A i \in 1..Len(ps) :
                        NetAmount(qs, ps[i].acc_qname) = NetAmount(ps, ps[i].acc_qname)
                   /\ \A i \in 1..Len(qs) : \E k \in 1..Len(ps) :
                        qs[i].acc_qname = ps[k].acc_qname
                   /\ simplify(txn_ret.txn) = txn_ret

\* three postings, two of them in one group, became two postings
C28_Witness ==
    /\ last.op = "simplify"
    /\ last.n = 2
    /\ Len(txn_arg.postings) = 3
    /\ \E i \in 1..3 : txn_arg.postings[i].stmt_date = 2
    /\ \E i \in 1..2 : txn_ret.txn.postings[i].amount = 2

(***************************************************************************)
(* C29: for a list of transactions in which every transaction with more    *)
(* than two postings has exactly one strictly positive or exactly one      *)
(* strictly negative posting, split_into_pairs returns only balanced       *)
(* two-posting transactions with pairwise distinct txn ids (two-posting    *)
(* inputs keep their id, new pairs get ids above the largest input id),    *)
(* and for every account the sum of amounts over the output equals the sum *)
(* over the input; when a transaction with more than two postings has      *)
(* several positive and several negative postings a ValueError is raised.  *)
(***************************************************************************)
\* the number of postings of txn whose amount is above (sign = 1) or below
\* (sign = -1) zero
SignCount(txn, sign) ==
    Cardinality({k \in 1..Len(txn.postings) : txn.postings[k].amount * sign > 0})

RECURSIVE AccountSum(_, _)
\* the sum of the amounts of the account acc over the transactions txns
AccountSum(txns, acc) ==
    IF txns = <<>> THEN 0
    ELSE SumAmounts(SelectSeq(Head(txns).postings, LAMBDA p : p.account = acc))
           + AccountSum(Tail(txns), acc)

\* for the list txn_arg, whose ids are set apart or not by distinct, what
\* split_into_pairs returned
SplitsIntoPairs(distinct) ==
    LET ins == txn_arg
        outs == txn_ret.txns
        large == {i \in 1..Len(ins) : Len(ins[i].postings) > 2}
        in_ids == {ins[i].postings[1].txn_id : i \in 1..Len(ins)}
        kept == {k \in 1..Len(outs) : \E i \in 1..Len(ins) : outs[k] = ins[i]}
    IN /\ (/\ distinct => Cardinality(in_ids) = Len(ins)
           /\ \A i \in large : SignCount(ins[i], 1) = 1 \/ SignCount(ins[i], 0 - 1) = 1)
          => /\ txn_ret.err = NoError
             /\ \A k \in 1..Len(outs) :
                  /\ Len(outs[k].postings) = 2
                  /\ validate_txn(outs[k].postings).err = NoError
             /\ \A k, n \in 1..Len(outs) :
                  outs[k].postings[1].txn_id = outs[n].postings[1].txn_id => k = n
             /\ \A i \in (1..Len(ins)) \ large : \E k \in kept : outs[k] = ins[i]
             /\ \A k \in (1..Len(outs)) \ kept :
                  \A id \in in_ids : outs[k].postings[1].txn_id > id
             /\ \A acc \in {"Bank", "Food"} :
                  AccountSum(outs, acc) = AccountSum(ins, acc)
       /\ (\E i \in large : SignCount(ins[i], 1) > 1 /\ SignCount(ins[i], 0 - 1) > 1)
          => txn_ret.err = "ValueError" /\ txn_ret.txns = <<>>

\* C29 as stated: for any list of transactions
C29_SplitIntoPairs ==
    last.op = "split_into_pairs" => SplitsIntoPairs(FALSE)

\* C29 as amended: for a list of transactions with pairwise distinct txn
\* ids in which every transaction with more than two postings has exactly
\* one strictly positive or exactly one strictly negative posting,
\* split_into_pairs returns only balanced two-posting transactions with
\* pairwise distinct txn ids (two-posting inputs keep their id, new pairs
\* get ids above the largest input id), and for every account the sum of
\* amounts over the output equals the sum over the input; when a
\* transaction with more than two postings has several positive and
\* several negative postings a ValueError is raised and nothing returned
C29_SplitDistinctIds ==
    last.op = "split_into_pairs" => SplitsIntoPairs(TRUE)

\* a transaction of four postings, two of them positive and one zero, next
\* to a transaction of two postings with another txn id: three pairs come
\* out
C29_Witness ==
    /\ last.op = "split_into_pairs"
    /\ txn_ret.err = NoError
    /\ Len(txn_arg) = 2
    /\ txn_arg[1].postings[1].txn_id # txn_arg[2].postings[1].txn_id
    /\ \E i \in 1..2 : /\ Len(txn_arg[i].postings) = 4
                       /\ SignCount(txn_arg[i], 1) = 2
                       /\ SignCount(txn_arg[i], 0 - 1) = 1
    /\ Len(txn_ret.txns) = 3

(***************************************************************************)
(* C30: add_txns and add_bassertions store the resolved full name of each  *)
(* account, so the account a stored posting or assertion refers to never   *)
(* changes under a later add_accounts, even when the short name first      *)
(* written becomes ambiguous or is shadowed by a new full name; and for    *)
(* every full name A registered already and every date d, balance(d, A),   *)
(* the value returned or the error raised, and the sum it is specified to  *)
(* return are unchanged by add_accounts.                                   *)
(***************************************************************************)
\* q is a registered full name of the journal j and resolves to itself
StandsForItself(j, q) ==
    /\ q \in RegisteredIn(j)
    /\ full_qname(j, q) = [err |-> NoError, qname |-> q]

AddAccountsFrame ==
    last'.op = "add_accounts" =>
        /\ postings' = postings
        /\ bassertions' = bassertions
        /\ \A i \in 1..Len(postings) :
              /\ StandsForItself(J, postings[i].acc_qname)
              /\ StandsForItself(J', postings[i].acc_qname)
        /\ \A i \in 1..Len(bassertions) :
              /\ StandsForItself(J, bassertions[i].acc_qname)
              /\ StandsForItself(J', bassertions[i].acc_qname)
        /\ \A q \in Registered : \A d \in Dates : \A use_stmt_date \in BOOLEAN :
              /\ StandsForItself(J', q)
              /\ balance(J', d, q, use_stmt_date) = balance(J, d, q, use_stmt_date)
              /\ SpecifiedBalance(postings', d, q, use_stmt_date)
                    = SpecifiedBalance(postings, d, q, use_stmt_date)

C30_AddAccountsFrame == [][AddAccountsFrame]_vars

\* a posting and an assertion written on C when it stood for A:C, and C
\* since made ambiguous by A:C:C and registered as a full name of its own
C30_Witness ==
    /\ last.op = "add_accounts"
    /\ last.n > 0
    /\ {<<"C">>, <<"A", "C">>, <<"A", "C", "C">>} \subseteq Registered
    /\ \E i \in 1..Len(postings) : postings[i].acc_qname = <<"A", "C">>
    /\ \E i \in 1..Len(bassertions) : bassertions[i].acc_qname = <<"A", "C">>
    /\ SpecifiedBalance(postings, 2, <<"A">>, FALSE) > 0
    /\ SpecifiedBalance(postings, 2, <<"C">>, FALSE) = 0
    /\ balance(J, 2, <<"A">>, FALSE).err # NoError
    /\ balance(J, 0, <<"A">>, FALSE) = [err |-> NoError, value |-> 0]

====
